---------------------------- MODULE Spec2Model ----------------------------
(***************************************************************************)
(* Model of the Pure & Original financial dashboard                        *)
(* (src/pure_original_dashboard.py): the account classifier, the ledger    *)
(* aggregation, the balance sheet, the intercompany monitor and the        *)
(* cashflow projection.                                                    *)
(*                                                                         *)
(* Amounts are integers in cents (1 currency unit = 100).  Dates are day   *)
(* numbers.  A table of the data source is a bag of records, a fetched     *)
(* DataFrame a sequence of row records, a grouped summary a set of rows    *)
(* (one per key).  An account code is a sequence of one-character strings. *)
(***************************************************************************)
EXTENDS Integers, Sequences, FiniteSets, Bags, TLC

VARIABLES
  ledger,          \* account.move.line records held by the data source
  invoices,        \* account.move records held by the data source
  code,            \* the account code handed to the classifier
  classification,  \* what classify_dutch_account returned for code
  aggregates,      \* the grouped summaries computed from the fetched lines
  balans,          \* what render_balance_sheet put on the page
  intercompany,    \* what render_intercompany put on the page
  vat,             \* what render_vat_analysis put on the page
  cashflow,        \* what render_cashflow put on the page
  position,        \* the part of the script that runs next
  filters,         \* what render_sidebar returned in this run
  requests,        \* the requests sent to the data source in this run
  api_key,         \* whether an API key is in the secrets or the session
  cache,           \* st.cache_data: the stored results with their time
  now,             \* the clock, in seconds
  calls,           \* the calls of a cached fetch function and the refreshes
  metrics          \* the totals behind the ratio metrics and the metrics shown

vars == <<ledger, invoices, code, classification, aggregates, balans, intercompany, vat, cashflow, position, filters, requests, api_key, cache, now, calls, metrics>>

-----------------------------------------------------------------------------
(* Arithmetic and collection helpers *)

Abs(x) == IF x < 0 THEN -x ELSE x

\* pandas Series.sum() of column col over the rows of a DataFrame
RECURSIVE SumCol(_, _)
SumCol(df, col) ==
  IF df = <<>> THEN 0
  ELSE IF Len(df) = 1 THEN df[1][col]
  ELSE LET half == Len(df) \div 2
       IN SumCol(SubSeq(df, 1, half), col) + SumCol(SubSeq(df, half + 1, Len(df)), col)

\* pandas Series.sum() of column col over the rows of a grouped summary
RECURSIVE SumSet(_, _)
SumSet(S, col) ==
  IF S = {} THEN 0
  ELSE LET x == CHOOSE y \in S : TRUE
       IN x[col] + SumSet(S \ {x}, col)

\* Bag B cut down to its records in S
RestrictBag(B, S) == [r \in S |-> B[r]]

\* The list of records a query returns, from the bag of records it selects
RECURSIVE BagToRows(_)
BagToRows(B) ==
  IF DOMAIN B = {} THEN <<>>
  ELSE LET x == CHOOSE y \in DOMAIN B : TRUE
       IN [i \in 1..B[x] |-> x] \o BagToRows(RestrictBag(B, DOMAIN B \ {x}))

\* The set of rows of a DataFrame
RowSet(df) == {df[i] : i \in DOMAIN df}

-----------------------------------------------------------------------------
(* Account codes *)

DigitChars == {"0", "1", "2", "3", "4", "5", "6", "7", "8", "9"}

\* str.isdigit() on one character
IsDigit(c) == c \in DigitChars

\* int() of one digit character
DigitValue(c) ==
  CASE c = "0" -> 0 [] c = "1" -> 1 [] c = "2" -> 2 [] c = "3" -> 3
    [] c = "4" -> 4 [] c = "5" -> 5 [] c = "6" -> 6 [] c = "7" -> 7
    [] c = "8" -> 8 [] c = "9" -> 9

\* The data source sends False for an empty field; a left merge leaves NaN
\* where no account matched.  Both are kept apart from every real string.
OdooFalse == <<"False">>
NaN == <<"NaN">>

\* Python truthiness of a code: "" and False are falsy, NaN is truthy
IsFalsy(c) == c = <<>> \/ c = OdooFalse

\* str(code)
Str(c) == IF c = NaN THEN <<"n", "a", "n">> ELSE c

RECURSIVE LStrip(_)
LStrip(s) == IF s # <<>> /\ Head(s) = " " THEN LStrip(Tail(s)) ELSE s

RECURSIVE RStrip(_)
RStrip(s) ==
  IF s # <<>> /\ s[Len(s)] = " " THEN RStrip(SubSeq(s, 1, Len(s) - 1)) ELSE s

\* str.strip()
Strip(s) == RStrip(LStrip(s))

\* The loop of classify_dutch_account: collect the first run of digits
RECURSIVE ScanDigits(_, _, _)
ScanDigits(s, i, numeric_part) ==
  IF i > Len(s) THEN numeric_part
  ELSE IF IsDigit(s[i]) THEN ScanDigits(s, i + 1, Append(numeric_part, s[i]))
  ELSE IF numeric_part # <<>> THEN numeric_part
  ELSE ScanDigits(s, i + 1, numeric_part)

NumericPart(c) == ScanDigits(Strip(Str(c)), 1, <<>>)

FirstDigit(numeric_part) == DigitValue(numeric_part[1])

\* The first two digits never read: the first digit followed by 0 (not
\* what the code does)
FirstTwoUnrefined(numeric_part) == FirstDigit(numeric_part) * 10

FirstTwo(numeric_part) ==
  IF Len(numeric_part) >= 2
  THEN 10 * DigitValue(numeric_part[1]) + DigitValue(numeric_part[2])
  ELSE FirstDigit(numeric_part) * 10

\* A function that ends without a return statement yields None
NoClassification == <<"None", "None", TRUE>>

\* The chain of class tests on the first digit and the first two digits
ClassifyByDigits(first_digit, first_two) ==
  IF first_digit = 0 THEN
    IF first_two >= 0 /\ first_two <= 3
      THEN <<"activa", "immateriele_activa", TRUE>>
    ELSE IF first_two >= 4 /\ first_two <= 6
      THEN <<"activa", "materiele_activa", TRUE>>
    ELSE <<"activa", "financiele_activa", TRUE>>
  ELSE IF first_digit = 1 THEN
    IF first_two >= 10 /\ first_two <= 13
      THEN <<"activa", "vorderingen", TRUE>>
    ELSE IF first_two >= 14 /\ first_two <= 16
      THEN <<"activa", "effecten", TRUE>>
    ELSE <<"activa", "liquide_middelen", TRUE>>
  ELSE IF first_digit = 2 THEN <<"activa", "voorraden", TRUE>>
  ELSE IF first_digit = 3 THEN <<"activa", "onderhanden_werk", TRUE>>
  ELSE IF first_digit = 4 THEN <<"resultaat", "kosten", TRUE>>
  ELSE IF first_digit = 5 THEN
    IF first_two >= 50 /\ first_two <= 54
      THEN <<"passiva", "eigen_vermogen", FALSE>>
    ELSE IF first_two >= 55 /\ first_two <= 56
      THEN <<"passiva", "voorzieningen", FALSE>>
    ELSE IF first_two >= 57 /\ first_two <= 58
      THEN <<"passiva", "schulden_lang", FALSE>>
    ELSE <<"passiva", "schulden_kort", FALSE>>
  ELSE IF first_digit = 6 THEN <<"resultaat", "kosten", TRUE>>
  ELSE IF first_digit = 7 THEN <<"resultaat", "opbrengsten", FALSE>>
  ELSE IF first_digit = 8 THEN <<"resultaat", "buitengewoon", TRUE>>
  ELSE IF first_digit = 9 THEN <<"off_balance", "statistisch", TRUE>>
  ELSE <<"overig", "overig", TRUE>>

\* classify_dutch_account with the digit-free return left out
classify_dutch_account_no_digit_guard(c) ==
  IF IsFalsy(c) THEN <<"overig", "overig", TRUE>>
  ELSE LET numeric_part == NumericPart(c)
       IN IF numeric_part = <<>> THEN NoClassification
          ELSE ClassifyByDigits(FirstDigit(numeric_part), FirstTwo(numeric_part))

\* (hoofdcategorie, subcategorie, is_debit_saldo) of an account code
classify_dutch_account(c) ==
  IF IsFalsy(c) THEN <<"overig", "overig", TRUE>>
  ELSE LET numeric_part == NumericPart(c)
       IN IF numeric_part = <<>> THEN <<"overig", "overig", TRUE>>
          ELSE ClassifyByDigits(FirstDigit(numeric_part), FirstTwo(numeric_part))

\* klasse 0-5, the cost class 4 among them (not what the code does)
is_balance_sheet_account_up_to_5(c) ==
  IF IsFalsy(c) THEN FALSE
  ELSE LET numeric_part == NumericPart(c)
       IN IF numeric_part = <<>> THEN FALSE
          ELSE FirstDigit(numeric_part) \in {0, 1, 2, 3, 4, 5}

\* klasse 0-3 and 5
is_balance_sheet_account(c) ==
  IF IsFalsy(c) THEN FALSE
  ELSE LET numeric_part == NumericPart(c)
       IN IF numeric_part = <<>> THEN FALSE
          ELSE FirstDigit(numeric_part) \in {0, 1, 2, 3, 5}

-----------------------------------------------------------------------------
(* Configuration and the data source *)

\* COMPANIES: the three configured entities
COMPANIES ==
  [c \in {1, 2, 3} |->
     CASE c = 1 -> "Pure & Original B.V."
       [] c = 2 -> "Mia Colore B.V."
       [] c = 3 -> "Pure & Original International B.V."]

\* COMPANIES.get(company_id, 'Onbekend')
CompanyName(company_id) ==
  IF company_id \in DOMAIN COMPANIES THEN COMPANIES[company_id] ELSE "Onbekend"

\* Option 0 of the entity selector, "Alle entiteiten", is handed on as None
AlleEntiteiten == 0

\* get_move_lines(domain, fields, limit=2000)
MoveLinesDefaultLimit == 2000

\* The chart of accounts held by the data source (account.account)
ChartOfAccounts ==
  { [id |-> 1, code |-> <<"1", "1", "0", "0">>, name |-> "Debiteuren",
     account_type |-> "asset_receivable"],
    [id |-> 2, code |-> <<"5", "0", "0", "0">>, name |-> "Aandelenkapitaal",
     account_type |-> "equity"],
    [id |-> 3, code |-> <<"7", "0", "0", "0">>, name |-> "Omzet",
     account_type |-> "income"],
    [id |-> 4, code |-> <<"4", "0", "0", "0">>, name |-> "Kosten",
     account_type |-> "expense"],
    [id |-> 5, code |-> <<"9", "0", "0", "0">>, name |-> "Statistisch",
     account_type |-> "off_balance"],
    [id |-> 6, code |-> <<"1", "2", "6", "0", "0", "0">>, name |-> "RC Mia Colore",
     account_type |-> "asset_current"],
    [id |-> 7, code |-> <<"1", "2", "6", "1", "0", "0">>, name |-> "RC International",
     account_type |-> "asset_current"],
    [id |-> 8, code |-> <<"1", "7", "1", "0">>, name |-> "Bank",
     account_type |-> "asset_cash"],
    [id |-> 9, code |-> <<"1", "5", "0", "0", "0", "0">>,
     name |-> "Af te dragen BTW", account_type |-> "liability_current"],
    [id |-> 10, code |-> <<"1", "5", "1", "0", "0", "0">>,
     name |-> "Af te dragen BTW EU", account_type |-> "liability_current"],
    [id |-> 11, code |-> <<"1", "5", "2", "0", "0", "0">>,
     name |-> "Voorbelasting", account_type |-> "asset_current"],
    [id |-> 12, code |-> <<"1", "5", "2", "0", "1", "0">>,
     name |-> "BTW buitenland", account_type |-> "asset_current"],
    [id |-> 13, code |-> <<"1", "5", "2", "0", "2", "0">>,
     name |-> "Belgische BTW", account_type |-> "asset_current"],
    [id |-> 14, code |-> <<"1", "5", "3", "0", "0", "0">>,
     name |-> "Correctie btw belgië", account_type |-> "asset_current"],
    [id |-> 15, code |-> <<"8", "0", "0", "0">>, name |-> "Buitengewone lasten",
     account_type |-> "expense"],
    [id |-> 16, code |-> <<"6", "0", "0", "0">>, name |-> "Overige kosten",
     account_type |-> "expense"] }

\* The characters of the account names of the chart (and of 'N/A')
Spelling(name) ==
  CASE name = "Debiteuren" ->
         <<"D", "e", "b", "i", "t", "e", "u", "r", "e", "n">>
    [] name = "Aandelenkapitaal" ->
         <<"A", "a", "n", "d", "e", "l", "e", "n", "k", "a", "p", "i", "t", "a",
           "a", "l">>
    [] name = "Omzet" ->
         <<"O", "m", "z", "e", "t">>
    [] name = "Kosten" ->
         <<"K", "o", "s", "t", "e", "n">>
    [] name = "Statistisch" ->
         <<"S", "t", "a", "t", "i", "s", "t", "i", "s", "c", "h">>
    [] name = "RC Mia Colore" ->
         <<"R", "C", " ", "M", "i", "a", " ", "C", "o", "l", "o", "r", "e">>
    [] name = "RC International" ->
         <<"R", "C", " ", "I", "n", "t", "e", "r", "n", "a", "t", "i", "o", "n",
           "a", "l">>
    [] name = "Bank" ->
         <<"B", "a", "n", "k">>
    [] name = "Af te dragen BTW" ->
         <<"A", "f", " ", "t", "e", " ", "d", "r", "a", "g", "e", "n", " ", "B",
           "T", "W">>
    [] name = "Af te dragen BTW EU" ->
         <<"A", "f", " ", "t", "e", " ", "d", "r", "a", "g", "e", "n", " ", "B",
           "T", "W", " ", "E", "U">>
    [] name = "Voorbelasting" ->
         <<"V", "o", "o", "r", "b", "e", "l", "a", "s", "t", "i", "n", "g">>
    [] name = "BTW buitenland" ->
         <<"B", "T", "W", " ", "b", "u", "i", "t", "e", "n", "l", "a", "n", "d">>
    [] name = "Belgische BTW" ->
         <<"B", "e", "l", "g", "i", "s", "c", "h", "e", " ", "B", "T", "W">>
    [] name = "Correctie btw belgië" ->
         <<"C", "o", "r", "r", "e", "c", "t", "i", "e", " ", "b", "t", "w", " ",
           "b", "e", "l", "g", "i", "ë">>
    [] name = "Buitengewone lasten" ->
         <<"B", "u", "i", "t", "e", "n", "g", "e", "w", "o", "n", "e", " ", "l",
           "a", "s", "t", "e", "n">>
    [] name = "Overige kosten" ->
         <<"O", "v", "e", "r", "i", "g", "e", " ", "k", "o", "s", "t", "e", "n">>
    [] name = "N/A" ->
         <<"N", "/", "A">>

\* str.lower() on one character, for the letters of the names
UpperCase ==
  <<"A", "B", "C", "D", "E", "F", "G", "H", "I", "J", "K", "L", "M", "N", "O",
    "P", "Q", "R", "S", "T", "U", "V", "W", "X", "Y", "Z", "Ë">>

LowerCase ==
  <<"a", "b", "c", "d", "e", "f", "g", "h", "i", "j", "k", "l", "m", "n", "o",
    "p", "q", "r", "s", "t", "u", "v", "w", "x", "y", "z", "ë">>

LowerChar(ch) ==
  IF \E i \in DOMAIN UpperCase : UpperCase[i] = ch
  THEN LowerCase[CHOOSE i \in DOMAIN UpperCase : UpperCase[i] = ch]
  ELSE ch

Lower(text) == [i \in DOMAIN text |-> LowerChar(text[i])]

\* The text holds the pattern as a substring
Contains(text, pattern) ==
  \E i \in 1..(Len(text) - Len(pattern) + 1) :
    SubSeq(text, i, i + Len(pattern) - 1) = pattern

\* Series.str.contains(pattern, case=False) for a plain pattern
ContainsIgnoreCase(text, pattern) == Contains(Lower(text), Lower(pattern))

\* str.startswith
StartsWith(text, prefix) ==
  Len(text) >= Len(prefix) /\ SubSeq(text, 1, Len(prefix)) = prefix

\* The account record a line's account_id refers to, when the chart holds it
HasAccount(accounts_df, account_id) == \E a \in accounts_df : a.id = account_id

AccountOf(accounts_df, account_id) == CHOOSE a \in accounts_df : a.id = account_id

\* One term of a search domain, (field, operator, value), on one record
DomainTermHolds(r, term) ==
  LET field == term[1]
      op == term[2]
      value == term[3]
  IN CASE field = "company_id" -> r.company_id = value
       [] field = "parent_state" -> r.parent_state = value
       [] field = "date" /\ op = ">=" -> r.date >= value
       [] field = "date" /\ op = "<=" -> r.date <= value
       [] field = "account_id.code" /\ op = "=like" ->
            \* the patterns of the program end in their only wildcard, %
            /\ HasAccount(ChartOfAccounts, r.account_id)
            /\ LET c == AccountOf(ChartOfAccounts, r.account_id).code
                   prefix == SubSeq(value, 1, Len(value) - 1)
               IN /\ Len(c) >= Len(prefix)
                  /\ SubSeq(c, 1, Len(prefix)) = prefix
       [] field = "move_type" /\ op = "in" ->
            \E i \in DOMAIN value : value[i] = r.move_type
       [] field = "invoice_date" /\ op = ">=" -> r.invoice_date >= value
       [] field = "invoice_date" /\ op = "<=" -> r.invoice_date <= value
       [] field = "account_id.account_type" ->
            /\ HasAccount(ChartOfAccounts, r.account_id)
            /\ AccountOf(ChartOfAccounts, r.account_id).account_type = value

\* The records of a table that satisfy every term of the domain
Matching(table, domain) ==
  RestrictBag(table, {r \in DOMAIN table :
                         \A i \in DOMAIN domain : DomainTermHolds(r, domain[i])})

\* The sum of the counts d gives the records of S
RECURSIVE SumCounts(_, _)
SumCounts(d, S) ==
  IF S = {} THEN 0
  ELSE LET r == CHOOSE y \in S : TRUE
       IN d[r] + SumCounts(d, S \ {r})

\* Bag B less left_out[r] copies of each record r
Without(B, left_out) ==
  LET kept == [r \in DOMAIN B |-> B[r] - left_out[r]]
  IN RestrictBag(kept, {r \in DOMAIN B : kept[r] > 0})

\* search_read with a limit: all matching records when they fit, otherwise
\* some limit of them (the model does not fix the server's order)
SearchRead(table, domain, limit) ==
  LET m == Matching(table, domain)
      excess == BagCardinality(m) - limit
  IN IF excess <= 0 THEN {m}
     ELSE {Without(m, left_out) :
             left_out \in {d \in [DOMAIN m -> 0..excess] :
                             /\ \A r \in DOMAIN m : d[r] <= m[r]
                             /\ SumCounts(d, DOMAIN m) = excess}}

\* What a fetch function hands its caller: None when odoo_call failed
\* (error response, timeout, exception), the records otherwise
FetchNone == [ok |-> FALSE, rows |-> <<>>]

Fetched(rows) == [ok |-> TRUE, rows |-> rows]

\* Python's "not result" on a fetch: None or an empty list
NotData(fetch) == ~fetch.ok \/ fetch.rows = <<>>

\* get_move_lines: the possible results of one call
get_move_lines(domain, limit, api_ok) ==
  IF api_ok THEN {Fetched(BagToRows(found)) : found \in SearchRead(ledger, domain, limit)}
  ELSE {FetchNone}

\* Python's None for a filter that is not given: like the entity 0 it is
\* falsy, and it is no date (the days are numbered from 1)
None == 0

\* The search domain of get_invoices
InvoiceDomain(company_id, date_from, date_to) ==
  <<(<<"move_type", "in", <<"out_invoice", "out_refund", "in_invoice", "in_refund">> >>)>>
  \o (IF company_id # None THEN <<(<<"company_id", "=", company_id>>)>> ELSE <<>>)
  \o (IF date_from # None THEN <<(<<"invoice_date", ">=", date_from>>)>> ELSE <<>>)
  \o (IF date_to # None THEN <<(<<"invoice_date", "<=", date_to>>)>> ELSE <<>>)

\* get_invoices: the possible results of one call
get_invoices(company_id, date_from, date_to, limit, api_ok) ==
  IF api_ok
  THEN {Fetched(BagToRows(found)) :
          found \in SearchRead(invoices, InvoiceDomain(company_id, date_from, date_to), limit)}
  ELSE {FetchNone}

\* get_accounts: the possible results of one call
get_accounts(api_ok) ==
  IF api_ok THEN {[ok |-> TRUE, rows |-> ChartOfAccounts]} ELSE {[ok |-> FALSE, rows |-> {}]}

NotAccounts(fetch) == ~fetch.ok \/ fetch.rows = {}

\* get_account_type_category: the statement category of an Odoo account
\* type (no function of the program calls it)
get_account_type_category(account_type) ==
  IF account_type \in {"asset_receivable", "asset_cash", "asset_current",
                       "asset_non_current", "asset_prepayments", "asset_fixed"}
  THEN "activa"
  ELSE IF account_type \in {"liability_payable", "liability_credit_card",
                            "liability_current", "liability_non_current"}
  THEN "passiva"
  ELSE IF account_type \in {"equity", "equity_unaffected"} THEN "eigen_vermogen"
  ELSE IF account_type \in {"income", "income_other"} THEN "opbrengsten"
  ELSE IF account_type \in {"expense", "expense_depreciation", "expense_direct_cost"}
  THEN "kosten"
  ELSE "overig"

-----------------------------------------------------------------------------
(* Ledger aggregation *)

\* lines_df.merge(accounts_df[['id','code','name','account_type']],
\*                left_on='account_id', right_on='id', how='left')
MergeRow(r, accounts_df) ==
  IF HasAccount(accounts_df, r.account_id)
  THEN LET a == AccountOf(accounts_df, r.account_id)
       IN [account_id |-> r.account_id, company_id |-> r.company_id,
           debit |-> r.debit, credit |-> r.credit, balance |-> r.balance,
           code |-> a.code, name |-> a.name, account_type |-> a.account_type]
  ELSE [account_id |-> r.account_id, company_id |-> r.company_id,
        debit |-> r.debit, credit |-> r.credit, balance |-> r.balance,
        code |-> NaN, name |-> "NaN", account_type |-> "NaN"]

RECURSIVE Merge(_, _)
Merge(lines_df, accounts_df) ==
  IF lines_df = <<>> THEN <<>>
  ELSE IF Len(lines_df) = 1 THEN <<MergeRow(lines_df[1], accounts_df)>>
  ELSE LET half == Len(lines_df) \div 2
       IN Merge(SubSeq(lines_df, 1, half), accounts_df)
          \o Merge(SubSeq(lines_df, half + 1, Len(lines_df)), accounts_df)

\* merged['nl_classification'] = merged['code'].apply(classify_dutch_account)
\* and the three columns taken from it
WithClassification(r) ==
  LET nl_classification == classify_dutch_account(r.code)
  IN [account_id |-> r.account_id, company_id |-> r.company_id,
      debit |-> r.debit, credit |-> r.credit, balance |-> r.balance,
      code |-> r.code, name |-> r.name, account_type |-> r.account_type,
      nl_category |-> nl_classification[1],
      nl_subcategory |-> nl_classification[2],
      nl_is_debit |-> nl_classification[3]]

RECURSIVE Classified(_)
Classified(merged) ==
  IF merged = <<>> THEN <<>>
  ELSE IF Len(merged) = 1 THEN <<WithClassification(merged[1])>>
  ELSE LET half == Len(merged) \div 2
       IN Classified(SubSeq(merged, 1, half))
          \o Classified(SubSeq(merged, half + 1, Len(merged)))

\* groupby(...) skips rows whose key holds a missing value
HasNaKey(r) == r.code = NaN \/ r.name = "NaN" \/ r.account_type = "NaN"

\* The group key of calculate_balance_sheet
BalanceKey(r) ==
  [code |-> r.code, name |-> r.name, account_type |-> r.account_type,
   nl_category |-> r.nl_category, nl_subcategory |-> r.nl_subcategory,
   nl_is_debit |-> r.nl_is_debit]

\* calculate_balance_sheet: one row per balance-sheet account, debit, credit
\* and balance each summed on its own
calculate_balance_sheet(lines_df, accounts_df) ==
  IF lines_df = <<>> \/ accounts_df = {} THEN {}
  ELSE LET merged == Classified(Merge(lines_df, accounts_df))
           balance_lines ==
             SelectSeq(merged, LAMBDA r : r.nl_category \in {"activa", "passiva"})
           grouped == SelectSeq(balance_lines, LAMBDA r : ~HasNaKey(r))
           keys == {BalanceKey(r) : r \in RowSet(grouped)}
           Group(k) == SelectSeq(grouped, LAMBDA r : BalanceKey(r) = k)
       IN {[code |-> k.code, name |-> k.name, account_type |-> k.account_type,
            nl_category |-> k.nl_category, nl_subcategory |-> k.nl_subcategory,
            nl_is_debit |-> k.nl_is_debit,
            debit |-> SumCol(Group(k), "debit"),
            credit |-> SumCol(Group(k), "credit"),
            balance |-> SumCol(Group(k), "balance")] : k \in keys}

\* pl_types of calculate_pl
PlTypes == {"income", "income_other", "expense", "expense_depreciation", "expense_direct_cost"}

\* The group key of calculate_pl
PlKey(r) == [code |-> r.code, name |-> r.name, account_type |-> r.account_type]

\* calculate_pl: one row per profit and loss account, debit, credit and
\* balance each summed on its own
calculate_pl(lines_df, accounts_df) ==
  IF lines_df = <<>> \/ accounts_df = {} THEN {}
  ELSE LET merged == Merge(lines_df, accounts_df)
           pl_lines == SelectSeq(merged, LAMBDA r : r.account_type \in PlTypes)
           grouped == SelectSeq(pl_lines, LAMBDA r : ~HasNaKey(r))
           keys == {PlKey(r) : r \in RowSet(grouped)}
           Group(k) == SelectSeq(grouped, LAMBDA r : PlKey(r) = k)
       IN {[code |-> k.code, name |-> k.name, account_type |-> k.account_type,
            debit |-> SumCol(Group(k), "debit"),
            credit |-> SumCol(Group(k), "credit"),
            balance |-> SumCol(Group(k), "balance")] : k \in keys}

\* The columns render_intercompany takes from a fetched line: the account
\* code and name out of the account's display name "code name", the entity
\* name out of COMPANIES
IntercompanyRow(l) ==
  LET known == HasAccount(ChartOfAccounts, l.account_id)
  IN [company_name |-> CompanyName(l.company_id),
      account_code |-> IF known THEN AccountOf(ChartOfAccounts, l.account_id).code
                       ELSE <<"N", "/", "A">>,
      account_name |-> IF known THEN AccountOf(ChartOfAccounts, l.account_id).name
                       ELSE "N/A",
      debit |-> l.debit, credit |-> l.credit, balance |-> l.balance]

RECURSIVE IntercompanyRows(_)
IntercompanyRows(lines) ==
  IF lines = <<>> THEN <<>>
  ELSE <<IntercompanyRow(Head(lines))>> \o IntercompanyRows(Tail(lines))

\* The group key of the intercompany summary
IntercompanyKey(r) ==
  [company_name |-> r.company_name, account_code |-> r.account_code,
   account_name |-> r.account_name]

\* df.groupby(['company_name', 'account_code', 'account_name']).agg(sum)
IntercompanySummary(df) ==
  LET keys == {IntercompanyKey(r) : r \in RowSet(df)}
      Group(k) == SelectSeq(df, LAMBDA r : IntercompanyKey(r) = k)
  IN {[company_name |-> k.company_name, account_code |-> k.account_code,
       account_name |-> k.account_name,
       debit |-> SumCol(Group(k), "debit"),
       credit |-> SumCol(Group(k), "credit"),
       balance |-> SumCol(Group(k), "balance")] : k \in keys}

-----------------------------------------------------------------------------
(* Balance sheet *)

\* The closing test of the balance sheet: abs(balance_check) < 1 (one
\* currency unit, in cents)
BalansTolerance == 100

\* The domain of render_balance_sheet with the lower date bound of the profit
\* and loss tab added
BalanceSheetDomainFromDateFrom(company_id, date_from, date_to) ==
  (IF company_id # AlleEntiteiten THEN <<(<<"company_id", "=", company_id>>)>> ELSE <<>>)
  \o <<(<<"date", ">=", date_from>>), (<<"date", "<=", date_to>>),
       (<<"parent_state", "=", "posted">>)>>

\* The search domain of render_balance_sheet: everything up to date_to
BalanceSheetDomain(company_id, date_from, date_to) ==
  (IF company_id # AlleEntiteiten THEN <<(<<"company_id", "=", company_id>>)>> ELSE <<>>)
  \o <<(<<"date", "<=", date_to>>), (<<"parent_state", "=", "posted">>)>>

NotRendered == [status |-> "none"]

\* A passiva subsection summed on the debit side (not what the code does)
PassivaSubtotalDebitSide(passiva_df, subcategory) ==
  LET rows == {r \in passiva_df : r.nl_subcategory = subcategory}
  IN SumSet(rows, "debit") - SumSet(rows, "credit")

\* credit - debit of the rows of one passiva subsection
PassivaSubtotal(passiva_df, subcategory) ==
  LET rows == {r \in passiva_df : r.nl_subcategory = subcategory}
  IN SumSet(rows, "credit") - SumSet(rows, "debit")

\* The diagnosis table: debit, credit and signed balance per subsection of
\* the balance-sheet rows
TypeSummary(balance) ==
  {LET rows == {r \in balance : r.nl_subcategory = sub}
       first == CHOOSE r \in rows : TRUE
       debit == SumSet(rows, "debit")
       credit == SumSet(rows, "credit")
   IN [nl_subcategory |-> sub, debit |-> debit, credit |-> credit,
       saldo |-> IF first.nl_is_debit THEN debit - credit ELSE credit - debit]
   : sub \in {r.nl_subcategory : r \in balance}}

\* render_balance_sheet from the two fetch results on: what the tab shows
render_balance_sheet(lines, accounts, company_id, date_from, date_to) ==
  IF NotData(lines) \/ NotAccounts(accounts)
  THEN [status |-> "geen_data"]
  ELSE
    LET lines_df == lines.rows
        accounts_df == accounts.rows
        balance == calculate_balance_sheet(lines_df, accounts_df)
    IN IF balance = {}
       THEN [status |-> "geen_balansdata"]
       ELSE
         LET activa_df == {r \in balance : r.nl_category = "activa"}
             passiva_df == {r \in balance : r.nl_category = "passiva"}
             merged_all == Classified(Merge(lines_df, accounts_df))
             result_df == SelectSeq(merged_all, LAMBDA r : r.nl_category = "resultaat")
             opbrengsten_df ==
               SelectSeq(result_df, LAMBDA r : r.nl_subcategory = "opbrengsten")
             kosten_df ==
               SelectSeq(result_df,
                         LAMBDA r : r.nl_subcategory \in {"kosten", "buitengewoon"})
             total_opbrengsten ==
               SumCol(opbrengsten_df, "credit") - SumCol(opbrengsten_df, "debit")
             total_kosten == SumCol(kosten_df, "debit") - SumCol(kosten_df, "credit")
             result_year == total_opbrengsten - total_kosten
             total_activa == SumSet(activa_df, "debit") - SumSet(activa_df, "credit")
             total_eigen_vermogen == PassivaSubtotal(passiva_df, "eigen_vermogen")
             total_voorzieningen == PassivaSubtotal(passiva_df, "voorzieningen")
             total_schulden_lang == PassivaSubtotal(passiva_df, "schulden_lang")
             total_schulden_kort == PassivaSubtotal(passiva_df, "schulden_kort")
             total_passiva ==
               total_eigen_vermogen + total_voorzieningen
                 + total_schulden_lang + total_schulden_kort
             balance_check == total_activa - total_passiva - result_year
         IN [status |-> "ok", company_id |-> company_id,
             date_from |-> date_from, date_to |-> date_to,
             total_activa |-> total_activa,
             total_passiva |-> total_passiva,
             total_eigen_vermogen |-> total_eigen_vermogen,
             result_year |-> result_year,
             balance_check |-> balance_check,
             check |-> IF Abs(balance_check) < BalansTolerance
                       THEN "Sluit" ELSE "Verschil",
             diagnose |-> Abs(balance_check) >= BalansTolerance,
             type_summary |-> IF Abs(balance_check) >= BalansTolerance
                              THEN TypeSummary(balance) ELSE {}]

\* The search domain of render_profit_loss: the posted lines of the period
ProfitLossDomain(company_id, date_from, date_to) ==
  (IF company_id # AlleEntiteiten THEN <<(<<"company_id", "=", company_id>>)>> ELSE <<>>)
  \o <<(<<"date", ">=", date_from>>), (<<"date", "<=", date_to>>),
       (<<"parent_state", "=", "posted">>)>>

-----------------------------------------------------------------------------
(* Intercompany monitor *)

\* The reconciliation test: abs(total_all) > 100 (currency units, in cents)
IntercompanyTolerance == 10000

\* The search domain of render_intercompany: the 126 accounts up to date_to
IntercompanyDomain(company_id, date_from, date_to) ==
  <<(<<"account_id.code", "=like", <<"1", "2", "6", "%">> >>),
    (<<"parent_state", "=", "posted">>)>>
  \o (IF company_id # AlleEntiteiten THEN <<(<<"company_id", "=", company_id>>)>> ELSE <<>>)
  \o <<(<<"date", "<=", date_to>>)>>

\* summary[summary['company_name'] == company]['balance'].sum()
CompanyBalance(summary, company) ==
  SumSet({r \in summary : r.company_name = company}, "balance")

\* The entities the reconciliation check adds up
ReconciledCompanies(summary) ==
  CompanyBalance(summary, "Pure & Original B.V.")
    + CompanyBalance(summary, "Pure & Original International B.V.")
    + CompanyBalance(summary, "Mia Colore B.V.")

\* if abs(total_all) > 100: error with the difference, else: success
ReconciliationCheck(total_all) ==
  IF Abs(total_all) > IntercompanyTolerance THEN "waarschuwing" ELSE "sluit_aan"

\* render_intercompany from the fetch result on: what the tab shows
render_intercompany(lines, company_id, date_from, date_to) ==
  IF NotData(lines) THEN [status |-> "geen_ic"]
  ELSE
    LET df == IntercompanyRows(lines.rows)
        summary == IntercompanySummary(df)
        companies == {r.company_name : r \in summary}
        total_all == ReconciledCompanies(summary)
    IN [status |-> "ok", company_id |-> company_id, date_to |-> date_to,
        summary |-> summary,
        net_position |-> [c \in companies |-> CompanyBalance(summary, c)],
        total_po_bv |-> CompanyBalance(summary, "Pure & Original B.V."),
        total_po_int |-> CompanyBalance(summary, "Pure & Original International B.V."),
        total_mia |-> CompanyBalance(summary, "Mia Colore B.V."),
        total_all |-> total_all,
        check |-> ReconciliationCheck(total_all)]

-----------------------------------------------------------------------------
(* VAT analysis *)

\* The search domain of render_vat_analysis: the 15 accounts in the period
VatDomain(company_id, date_from, date_to) ==
  <<(<<"account_id.code", "=like", <<"1", "5", "%">> >>),
    (<<"parent_state", "=", "posted">>)>>
  \o (IF company_id # AlleEntiteiten THEN <<(<<"company_id", "=", company_id>>)>> ELSE <<>>)
  \o <<(<<"date", ">=", date_from>>), (<<"date", "<=", date_to>>)>>

\* categorize_vat: the category of an account code of the 15 series
categorize_vat(c) ==
  IF \E d \in DigitChars : StartsWith(c, <<"1", "5", "0", d>>) THEN "Af te dragen"
  ELSE IF \E d \in DigitChars : StartsWith(c, <<"1", "5", "1", d>>)
       THEN "Af te dragen EU/buiten EU"
  ELSE IF StartsWith(c, <<"1", "5", "2">>) THEN "Voorbelasting"
  ELSE IF StartsWith(c, <<"1", "5", "3">>) THEN "Overig/correcties"
  ELSE IF StartsWith(c, <<"1", "5", "4">>) THEN "Af te dragen diensten"
  ELSE "Overig"

\* The columns render_vat_analysis adds to a fetched line
VatRow(l) ==
  LET r == IntercompanyRow(l)
  IN [company_name |-> r.company_name, account_code |-> r.account_code,
      account_name |-> r.account_name,
      vat_category |-> categorize_vat(r.account_code),
      debit |-> l.debit, credit |-> l.credit, balance |-> l.balance]

RECURSIVE VatRows(_)
VatRows(lines) ==
  IF lines = <<>> THEN <<>> ELSE <<VatRow(Head(lines))>> \o VatRows(Tail(lines))

\* The net position with the two amounts in each other's place
NettoSwapped(voorbelasting, af_te_dragen) == af_te_dragen - voorbelasting

\* netto = voorbelasting - af_te_dragen
Netto(voorbelasting, af_te_dragen) == voorbelasting - af_te_dragen

\* The third metric of an entity: to receive or to pay
NettoMetric(netto) ==
  IF netto >= 0 THEN [label |-> "Te vorderen", bedrag |-> netto]
  ELSE [label |-> "Te betalen", bedrag |-> Abs(netto)]

\* The detail table of an entity: debit, credit and their difference per account
VatDetail(company_data) ==
  LET keys == {[account_code |-> r.account_code, account_name |-> r.account_name] :
                 r \in RowSet(company_data)}
      Group(k) == SelectSeq(company_data, LAMBDA r : /\ r.account_code = k.account_code
                                                     /\ r.account_name = k.account_name)
  IN {[Code |-> k.account_code, Rekening |-> k.account_name,
       Debet |-> SumCol(Group(k), "debit"), Credit |-> SumCol(Group(k), "credit"),
       Saldo |-> SumCol(Group(k), "debit") - SumCol(Group(k), "credit")] : k \in keys}

\* The expander of one entity
VatOverview(df, company) ==
  LET company_data == SelectSeq(df, LAMBDA r : r.company_name = company)
      voorbelasting ==
        SumCol(SelectSeq(company_data, LAMBDA r : r.vat_category = "Voorbelasting"), "debit")
      af_te_dragen ==
        SumCol(SelectSeq(company_data, LAMBDA r : r.vat_category = "Af te dragen"), "credit")
      netto == Netto(voorbelasting, af_te_dragen)
  IN [voorbelasting |-> voorbelasting, af_te_dragen |-> af_te_dragen,
      netto |-> netto, metric |-> NettoMetric(netto),
      detail |-> VatDetail(company_data)]

\* The Belgian VAT check searching for the letters 'BE' (not what the code
\* does)
IsBelgianVatByLetters(r) ==
  \/ ContainsIgnoreCase(Spelling(r.account_name), <<"B", "E">>)
  \/ r.account_code = <<"1", "5", "2", "0", "1", "0">>

\* The lines of the Belgian VAT check: account_name contains 'Belgisch' or
\* 'België' (case=False) or account_code is '152010'
IsBelgianVat(r) ==
  \/ ContainsIgnoreCase(Spelling(r.account_name),
                        <<"B", "e", "l", "g", "i", "s", "c", "h">>)
  \/ ContainsIgnoreCase(Spelling(r.account_name), <<"B", "e", "l", "g", "i", "ë">>)
  \/ r.account_code = <<"1", "5", "2", "0", "1", "0">>

\* The warning on Belgian VAT: shown when debits were booked on the lines
BelgianVatWarning(be_vat) ==
  IF be_vat = <<>> THEN [shown |-> FALSE]
  ELSE
    LET be_total == SumCol(be_vat, "debit")
        Debit(c) == SumCol(SelectSeq(be_vat, LAMBDA r : r.company_name = c), "debit")
        companies_with_be == {c \in {r.company_name : r \in RowSet(be_vat)} : Debit(c) > 0}
    IN IF be_total > 0 /\ companies_with_be # {}
       THEN [shown |-> TRUE, be_total |-> be_total,
             per_entiteit |-> [c \in companies_with_be |-> Debit(c)]]
       ELSE [shown |-> FALSE]

\* render_vat_analysis from the fetch result on: what the tab shows
render_vat_analysis(lines, company_id, date_from, date_to) ==
  IF NotData(lines) THEN [status |-> "geen_btw"]
  ELSE
    LET df == VatRows(lines.rows)
        companies == {r.company_name : r \in RowSet(df)}
        be_vat == SelectSeq(df, LAMBDA r : IsBelgianVat(r))
        overview == [c \in companies |-> VatOverview(df, c)]
    IN [status |-> "ok", company_id |-> company_id,
        date_from |-> date_from, date_to |-> date_to,
        entiteiten |-> overview,
        be_vat |-> RowSet(be_vat),
        belgische_btw |-> BelgianVatWarning(be_vat),
        ratio_info |-> {c \in companies :
                          /\ overview[c].voorbelasting > 0
                          /\ overview[c].af_te_dragen > 0
                          /\ 2 * overview[c].voorbelasting > overview[c].af_te_dragen}]

-----------------------------------------------------------------------------
(* Cashflow forecast *)

\* The limit render_cashflow passes to get_invoices
CashflowInvoiceLimit == 2000

\* The search domain of the bank balance: the posted lines on cash accounts
BankDomain(company_id) ==
  <<(<<"account_id.account_type", "=", "asset_cash">>)>>
  \o (IF company_id # AlleEntiteiten THEN <<(<<"company_id", "=", company_id>>)>> ELSE <<>>)
  \o <<(<<"parent_state", "=", "posted">>)>>

\* sum(l['debit'] - l['credit'] for l in bank_lines) if bank_lines else 0
CurrentBalance(bank_lines) ==
  IF NotData(bank_lines) THEN 0
  ELSE SumCol(bank_lines.rows, "debit") - SumCol(bank_lines.rows, "credit")

\* A date field that is set, as the data source returns it; one that is not
\* set is Odoo's False
DateString(day) == <<"date", day>>

\* pd.to_datetime converts a column of date strings; Odoo's False for a
\* date that is not set is not convertible
Convertible(df) == \A i \in DOMAIN df : df[i].invoice_date_due # OdooFalse

\* The day a date string is converted to
ToDatetime(date_string) == date_string[2]

\* The type column with a credit note on the side of its invoice (not
\* what the code does)
InvoiceTypeBySide(move_type) ==
  IF move_type \in {"out_invoice", "out_refund"} THEN "Inkomend"
  ELSE IF move_type \in {"in_invoice", "in_refund"} THEN "Uitgaand"
  ELSE "Overig"

\* The type column of open_invoices
InvoiceType(move_type) ==
  IF move_type = "out_invoice" THEN "Inkomend"
  ELSE IF move_type = "in_invoice" THEN "Uitgaand"
  ELSE "Overig"

WithType(r) ==
  [invoice_date_due |-> ToDatetime(r.invoice_date_due), amount_residual |-> r.amount_residual,
   type |-> InvoiceType(r.move_type)]

RECURSIVE Typed(_)
Typed(df) == IF df = <<>> THEN <<>> ELSE <<WithType(Head(df))>> \o Typed(Tail(df))

\* The invoices of one type due in (from, until): the first day of the
\* window left out (not what the code does)
DueInAfterStart(open_invoices, type, from, until) ==
  SelectSeq(open_invoices, LAMBDA r : /\ r.type = type
                                      /\ r.invoice_date_due > from
                                      /\ r.invoice_date_due < until)

\* The invoices of one type due in [from, until)
DueIn(open_invoices, type, from, until) ==
  SelectSeq(open_invoices, LAMBDA r : /\ r.type = type
                                      /\ r.invoice_date_due >= from
                                      /\ r.invoice_date_due < until)

\* The week with the upper end of the window included
WeekRowInclusiveEnd(open_invoices, prognose_start, i) ==
  LET week_start == prognose_start + 7 * i
      week_end == week_start + 7
      week_incoming_invoices == DueIn(open_invoices, "Inkomend", week_start, week_end + 1)
      week_outgoing_invoices == DueIn(open_invoices, "Uitgaand", week_start, week_end + 1)
      week_incoming == SumCol(week_incoming_invoices, "amount_residual")
      week_outgoing == SumCol(week_outgoing_invoices, "amount_residual")
  IN [Week |-> i + 1, Start |-> week_start, Eind |-> week_end,
      Inkomend |-> week_incoming, Uitgaand |-> - week_outgoing,
      Netto |-> week_incoming - week_outgoing,
      Aantal_in |-> Len(week_incoming_invoices),
      Aantal_uit |-> Len(week_outgoing_invoices)]

\* One pass of the loop over range(num_weeks): the row of week i + 1
WeekRow(open_invoices, prognose_start, i) ==
  LET week_start == prognose_start + 7 * i
      week_end == week_start + 7
      week_incoming_invoices == DueIn(open_invoices, "Inkomend", week_start, week_end)
      week_outgoing_invoices == DueIn(open_invoices, "Uitgaand", week_start, week_end)
      week_incoming == SumCol(week_incoming_invoices, "amount_residual")
      week_outgoing == SumCol(week_outgoing_invoices, "amount_residual")
  IN [Week |-> i + 1, Start |-> week_start, Eind |-> week_end,
      Inkomend |-> week_incoming, Uitgaand |-> - week_outgoing,
      Netto |-> week_incoming - week_outgoing,
      Aantal_in |-> Len(week_incoming_invoices),
      Aantal_uit |-> Len(week_outgoing_invoices)]

\* The loop over range(num_weeks) from pass i on
RECURSIVE WeekRows(_, _, _, _)
WeekRows(open_invoices, prognose_start, i, num_weeks) ==
  IF i >= num_weeks THEN <<>>
  ELSE <<WeekRow(open_invoices, prognose_start, i)>>
       \o WeekRows(open_invoices, prognose_start, i + 1, num_weeks)

RECURSIVE Column(_, _)
Column(df, col) == IF df = <<>> THEN <<>> ELSE <<Head(df)[col]>> \o Column(Tail(df), col)

\* Series.cumsum(), total being the sum of the values before
RECURSIVE CumSumFrom(_, _)
CumSumFrom(values, total) ==
  IF values = <<>> THEN <<>>
  ELSE <<total + Head(values)>> \o CumSumFrom(Tail(values), total + Head(values))

CumSum(values) == CumSumFrom(values, 0)

\* series + scalar
RECURSIVE Plus(_, _)
Plus(values, scalar) ==
  IF values = <<>> THEN <<>> ELSE <<Head(values) + scalar>> \o Plus(Tail(values), scalar)

\* The cumulative column without the bank balance
CumulatiefFromZero(netto, current_balance) == CumSum(netto)

\* weeks_df['Netto'].cumsum() + current_balance
Cumulatief(netto, current_balance) == Plus(CumSum(netto), current_balance)

\* weeks_df with the column Cumulatief added
RECURSIVE WithCumulatief(_, _)
WithCumulatief(weeks, cumulatief) ==
  IF weeks = <<>> THEN <<>>
  ELSE LET w == Head(weeks)
       IN <<[Week |-> w.Week, Start |-> w.Start, Eind |-> w.Eind,
             Inkomend |-> w.Inkomend, Uitgaand |-> w.Uitgaand, Netto |-> w.Netto,
             Aantal_in |-> w.Aantal_in, Aantal_uit |-> w.Aantal_uit,
             Cumulatief |-> Head(cumulatief)]>>
          \o WithCumulatief(Tail(weeks), Tail(cumulatief))

RECURSIVE Minimum(_)
Minimum(values) ==
  IF Len(values) = 1 THEN values[1]
  ELSE LET m == Minimum(Tail(values))
       IN IF Head(values) < m THEN Head(values) ELSE m

\* The expander of the overdue or of the later invoices: shown when there
\* are any, with the amounts to receive and to pay
OutsideForecast(df) ==
  IF df = <<>> THEN [shown |-> FALSE]
  ELSE [shown |-> TRUE, count |-> Len(df),
        incoming |-> SumCol(SelectSeq(df, LAMBDA r : r.type = "Inkomend"), "amount_residual"),
        outgoing |-> SumCol(SelectSeq(df, LAMBDA r : r.type = "Uitgaand"), "amount_residual")]

\* render_cashflow from the fetch results on: what the tab shows. The
\* dates are day numbers; the invoice lists of the detail view are left out.
render_cashflow(fetched_invoices, bank_lines, company_id, start_date, num_weeks) ==
  IF NotData(fetched_invoices) THEN [status |-> "geen_factuurdata"]
  ELSE
    LET df == fetched_invoices.rows
        open == SelectSeq(df, LAMBDA r : r.amount_residual > 0)
    IN IF open = <<>> THEN [status |-> "geen_openstaand"]
       ELSE
         LET current_balance == CurrentBalance(bank_lines)
         IN IF ~Convertible(open)
            THEN [status |-> "exception", current_balance |-> current_balance]
            ELSE
              LET open_invoices == Typed(open)
                  prognose_start == start_date
                  weeks == WeekRows(open_invoices, prognose_start, 0, num_weeks)
                  cumulatief == Cumulatief(Column(weeks, "Netto"), current_balance)
                  weeks_df == WithCumulatief(weeks, cumulatief)
                  prognose_end == prognose_start + 7 * num_weeks
                  overdue == SelectSeq(open_invoices,
                                       LAMBDA r : r.invoice_date_due < prognose_start)
                  future == SelectSeq(open_invoices,
                                      LAMBDA r : r.invoice_date_due >= prognose_end)
                  min_balance == Minimum(cumulatief)
              IN [status |-> "ok", company_id |-> company_id,
                  start_date |-> start_date, num_weeks |-> num_weeks,
                  current_balance |-> current_balance,
                  weeks |-> weeks_df,
                  overdue |-> OutsideForecast(overdue),
                  future |-> OutsideForecast(future),
                  melding |-> IF min_balance < 0 THEN "negatief_saldo"
                              ELSE IF 5 * min_balance < current_balance THEN "laag_saldo"
                              ELSE "geen"]

-----------------------------------------------------------------------------
(* The requests of the script *)

\* render_sidebar's result without filters: (None, None, None)
NoFilters == [company_id |-> None, date_from |-> None, date_to |-> None]

\* The call odoo_call posts: execute_kw of a method of a model, here with
\* the search domain of its arguments
Request(model, method, domain) == [model |-> model, method |-> method, domain |-> domain]

get_companies_request == Request("res.company", "search_read", <<>>)

get_accounts_request == Request("account.account", "search_read", <<>>)

get_invoices_request(company_id, date_from, date_to) ==
  Request("account.move", "search_read", InvoiceDomain(company_id, date_from, date_to))

get_move_lines_request(domain) == Request("account.move.line", "search_read", domain)

get_products_request ==
  Request("product.product", "search_read", <<(<<"sale_ok", "=", TRUE>>)>>)

get_product_categories_request == Request("product.category", "search_read", <<>>)

\* A request for the PDF that posts the invoice
get_invoice_pdf_request_posting(invoice_id) ==
  Request("account.move", "action_post", <<(<<"id", "=", invoice_id>>)>>)

\* The request of get_invoice_pdf, which builds its own payload
get_invoice_pdf_request(invoice_id) ==
  Request("ir.attachment", "search_read",
          <<(<<"res_model", "=", "account.move">>), (<<"res_id", "=", invoice_id>>),
            (<<"mimetype", "=", "application/pdf">>)>>)

\* The search domain of render_bank
BankTabDomain(company_id, date_from, date_to) ==
  <<(<<"account_id.account_type", "=", "asset_cash">>)>>
  \o (IF company_id # AlleEntiteiten THEN <<(<<"company_id", "=", company_id>>)>> ELSE <<>>)
  \o <<(<<"date", "<=", date_to>>), (<<"parent_state", "=", "posted">>)>>

-----------------------------------------------------------------------------
(* Ratio metrics *)

\* A ratio as a percentage in tenths of a percent, the figure an f-string
\* with .1f shows (the amounts of the runs give whole tenths)
Tenths(num, den) == (num * 1000) \div den

NotApplicable == [text |-> "N/A"]

Percentage(tenths) == [text |-> "percent", tenths |-> tenths]

\* The metric "Bruto Marge" of render_profit_loss
BrutoMarge(total_income, total_expense) ==
  IF total_income > 0
  THEN Percentage(Tenths(total_income - total_expense, total_income))
  ELSE NotApplicable

\* The metric "Betaald %" of render_invoices, from the sums of amount_total
\* and amount_residual of the filtered invoices
BetaaldPct(amount_total, amount_residual) ==
  LET paid_pct == IF amount_total > 0
                  THEN Tenths(amount_total - amount_residual, amount_total)
                  ELSE 0
  IN Percentage(paid_pct)

\* One row of the table of lowest margins
MarginRow(r) ==
  [name |-> r.name, list_price |-> r.list_price, standard_price |-> r.standard_price,
   margin_pct |-> Percentage(Tenths(r.list_price - r.standard_price, r.list_price))]

RECURSIVE MarginRows(_)
MarginRows(df) ==
  IF df = <<>> THEN <<>> ELSE <<MarginRow(Head(df))>> \o MarginRows(Tail(df))

RECURSIVE SumTenths(_)
SumTenths(rows) ==
  IF rows = <<>> THEN 0 ELSE Head(rows).margin_pct.tenths + SumTenths(Tail(rows))

\* "Marge Analyse" of render_products: the products with a list price
\* above 0, their mean margin and the table of the (up to 10) lowest
MargeAnalyse(products_df) ==
  LET margin_df == MarginRows(SelectSeq(products_df, LAMBDA r : r.list_price > 0))
  IN IF margin_df = <<>> THEN [shown |-> FALSE]
     ELSE [shown |-> TRUE,
           avg_margin |-> Percentage(SumTenths(margin_df) \div Len(margin_df)),
           low_margin |-> RowSet(margin_df)]

\* A metric that has not been rendered in this run
Pending == [text |-> "pending"]

-----------------------------------------------------------------------------
(* The cache of the fetch functions *)

\* @st.cache_data(ttl=300): the seconds a stored result is served
CacheTtl == 300

\* An entry that is served whatever its age (not what the cache does)
FreshForever(entry, time) == TRUE

\* An entry is served while its ttl has not elapsed since it was stored
Fresh(entry, time) == time < entry.stored_at + CacheTtl

\* The cache storing only results that hold data (not what the cache does)
StoreDataOnly(entries, key, result, time) ==
  IF result.ok
  THEN [k \in DOMAIN entries \cup {key} |->
          IF k = key THEN [result |-> result, stored_at |-> time] ELSE entries[k]]
  ELSE entries

\* The return value of the function is stored under its arguments, None
\* like any other value
Store(entries, key, result, time) ==
  [k \in DOMAIN entries \cup {key} |->
     IF k = key THEN [result |-> result, stored_at |-> time] ELSE entries[k]]

\* One entry of the history: a call of get_move_lines or a refresh
CallEvent(key, time, contacted, result) ==
  [kind |-> "call", key |-> key, at |-> time, contacted |-> contacted, result |-> result]

RefreshEvent(time) ==
  [kind |-> "refresh", key |-> <<>>, at |-> time, contacted |-> FALSE, result |-> FetchNone]

-----------------------------------------------------------------------------
(* Bounds and input universes *)

MaxCodeLen == 3
MaxCalls == 2
MaxLines == 2
MaxAggLines == 2
MaxICLines == 3
MaxInvoices == 2
MaxBankLines == 1
MaxVatLines == 2
MaxCacheLines == 1
MaxLimitLines == 2
BatchSize == MoveLinesDefaultLimit
MaxProducts == 2
MaxCachedCalls == 3
MaxTime == 450
TimeStep == 150

\* The characters account codes are drawn from: digits, a letter, a blank
CodeChars == DigitChars \cup {"A", " "}

RECURSIVE SeqsUpTo(_, _)
SeqsUpTo(S, n) ==
  IF n = 0 THEN {<<>>}
  ELSE LET shorter == SeqsUpTo(S, n - 1)
       IN shorter \cup {Append(q, x) : q \in {t \in shorter : Len(t) = n - 1}, x \in S}

\* The ten six-digit codes, one per class
ClassCodes ==
  { <<"0", "0", "0", "0", "0", "1">>, <<"1", "0", "9", "9", "9", "9">>,
    <<"2", "0", "9", "9", "9", "9">>, <<"3", "0", "9", "9", "9", "9">>,
    <<"4", "0", "9", "9", "9", "9">>, <<"5", "0", "9", "9", "9", "9">>,
    <<"6", "0", "9", "9", "9", "9">>, <<"7", "0", "9", "9", "9", "9">>,
    <<"8", "0", "9", "9", "9", "9">>, <<"9", "0", "9", "9", "9", "9">> }

\* Codes with text before and after the first digit run
PrefixedCodes ==
  { <<"A", "5", " ", "9">>, <<"N", "L", "5", "9", "0", "0">>,
    <<" ", "1", "7", "1", "0", " ">>, <<"0", "7", "-", "1">> }

CodeInputs ==
  SeqsUpTo(CodeChars, MaxCodeLen) \cup ClassCodes \cup PrefixedCodes \cup {OdooFalse, NaN}

Dates == {1, 2, 3}

\* A posted ledger line as the data source holds it
Line(account_id, company_id, date, debit, credit) ==
  [account_id |-> account_id, company_id |-> company_id, date |-> date,
   debit |-> debit, credit |-> credit, balance |-> debit - credit,
   parent_state |-> "posted"]

\* The lines booked in the balance sheet runs: every class of account (99 is
\* an account id the chart does not hold), amounts of 1.00 and 0.50, a second
\* entity and a draft entry
BalansLines ==
  {Line(a, 1, d, m[1], m[2]) :
     a \in {1, 2, 3, 4, 5, 99}, d \in Dates, m \in {<<100, 0>>, <<0, 100>>}}
  \cup {Line(a, 1, d, 50, 0) : a \in {1, 3, 5}, d \in Dates}
  \cup {Line(1, 2, 1, 100, 0), Line(3, 2, 2, 0, 100)}
  \cup {Line(15, 1, 2, 100, 0), Line(15, 1, 2, 0, 100), Line(16, 1, 2, 100, 0)}
  \cup {[Line(1, 1, 2, 100, 0) EXCEPT !.parent_state = "draft"]}

-----------------------------------------------------------------------------
(* The classifier run: a code is chosen and classified, possibly twice *)

IdleData ==
  /\ ledger = EmptyBag
  /\ invoices = EmptyBag

\* st.cache_data with nothing stored
EmptyCache == [key \in {} |-> 0]

IdleCache ==
  /\ cache = EmptyCache
  /\ now = 0
  /\ calls = <<>>

IdlePages ==
  /\ aggregates = NotRendered
  /\ balans = NotRendered
  /\ intercompany = NotRendered
  /\ vat = NotRendered
  /\ cashflow = NotRendered
  /\ position = "idle"
  /\ filters = NoFilters
  /\ requests = <<>>
  /\ api_key = FALSE
  /\ metrics = NotRendered
  /\ IdleCache

InitClassify ==
  /\ code \in CodeInputs
  /\ classification = <<>>
  /\ IdleData
  /\ IdlePages

Classify ==
  /\ Len(classification) < MaxCalls
  /\ classification' = Append(classification, classify_dutch_account(code))
  /\ UNCHANGED <<ledger, invoices, code, aggregates, balans, intercompany, vat, cashflow, position, filters, requests, api_key, cache, now, calls, metrics>>

NextClassify == Classify

SpecClassify == InitClassify /\ [][NextClassify]_vars

-----------------------------------------------------------------------------
(* The balance sheet run: lines are booked, then the tab is rendered *)

InitBalans ==
  /\ ledger = EmptyBag
  /\ invoices = EmptyBag
  /\ code = <<>>
  /\ classification = <<>>
  /\ IdlePages

\* The accounting system books a line; the dashboard only reads
BookBalansLine(l) ==
  /\ balans = NotRendered
  /\ BagCardinality(ledger) < MaxLines
  /\ ledger' = ledger (+) SetToBag({l})
  /\ UNCHANGED <<invoices, code, classification, aggregates, balans, intercompany, vat, cashflow, position, filters, requests, api_key, cache, now, calls, metrics>>

\* One run of the balance sheet tab with the sidebar's filters
RenderBalanceSheet(company_id, date_from, date_to, lines_ok, accounts_ok) ==
  /\ balans = NotRendered
  /\ \E lines \in get_move_lines(BalanceSheetDomain(company_id, date_from, date_to),
                                  MoveLinesDefaultLimit, lines_ok),
        accounts \in get_accounts(accounts_ok) :
       balans' = render_balance_sheet(lines, accounts, company_id, date_from, date_to)
  /\ UNCHANGED <<ledger, invoices, code, classification, aggregates, intercompany, vat, cashflow, position, filters, requests, api_key, cache, now, calls, metrics>>

\* The script is run again: the page starts empty
RerunBalans ==
  /\ balans # NotRendered
  /\ balans' = NotRendered
  /\ UNCHANGED <<ledger, invoices, code, classification, aggregates, intercompany, vat, cashflow, position, filters, requests, api_key, cache, now, calls, metrics>>

NextBalans ==
  \/ \E l \in BalansLines : BookBalansLine(l)
  \/ RerunBalans
  \/ \E company_id \in {AlleEntiteiten, 1}, date_from \in Dates, date_to \in Dates,
        lines_ok \in BOOLEAN, accounts_ok \in BOOLEAN :
       /\ date_from <= date_to
       /\ RenderBalanceSheet(company_id, date_from, date_to, lines_ok, accounts_ok)

SpecBalans == InitBalans /\ [][NextBalans]_vars

-----------------------------------------------------------------------------
(* The aggregation run: lines are booked, then one run of the script groups
   them for the profit and loss, balance sheet and intercompany tabs *)

\* A ledger line as the data source returns it: balance is a stored field
\* of the record, fetched next to debit and credit
LineWithBalance(account_id, company_id, date, debit, credit, balance) ==
  [Line(account_id, company_id, date, debit, credit) EXCEPT !.balance = balance]

\* A receivable, a revenue and a clearing account in two entities, amounts
\* of 1.00 on either side, the stored balance equal to debit - credit or one
\* cent off; a credit on the VAT payable account 150000 (a current
\* liability) and on the share capital
AggLines ==
  {LineWithBalance(a, c, 2, m[1], m[2], m[1] - m[2] + drift) :
     a \in {1, 3, 6}, c \in {1, 2}, m \in {<<100, 0>>, <<0, 100>>}, drift \in {0, 1}}
  \cup {Line(9, 1, 2, 0, 100), Line(2, 1, 2, 0, 100)}

InitAgg ==
  /\ ledger = EmptyBag
  /\ invoices = EmptyBag
  /\ code = <<>>
  /\ classification = <<>>
  /\ IdlePages

BookAggLine(l) ==
  /\ aggregates = NotRendered
  /\ BagCardinality(ledger) < MaxAggLines
  /\ ledger' = ledger (+) SetToBag({l})
  /\ UNCHANGED <<invoices, code, classification, aggregates, balans, intercompany, vat, cashflow, position, filters, requests, api_key, cache, now, calls, metrics>>

\* One run of the script: each tab fetches its lines and groups them
Aggregate(company_id, date_from, date_to, api_ok) ==
  /\ aggregates = NotRendered
  /\ \E pl_lines \in get_move_lines(ProfitLossDomain(company_id, date_from, date_to),
                                     MoveLinesDefaultLimit, api_ok),
        bs_lines \in get_move_lines(BalanceSheetDomain(company_id, date_from, date_to),
                                     MoveLinesDefaultLimit, api_ok),
        ic_lines \in get_move_lines(IntercompanyDomain(company_id, date_from, date_to),
                                     MoveLinesDefaultLimit, api_ok),
        accounts \in get_accounts(api_ok) :
       aggregates' =
         IF ~api_ok THEN [status |-> "geen_data"]
         ELSE [status |-> "ok",
               pl |-> calculate_pl(pl_lines.rows, accounts.rows),
               balance |-> calculate_balance_sheet(bs_lines.rows, accounts.rows),
               intercompany |-> IntercompanySummary(IntercompanyRows(ic_lines.rows))]
  /\ UNCHANGED <<ledger, invoices, code, classification, balans, intercompany, vat, cashflow, position, filters, requests, api_key, cache, now, calls, metrics>>

RerunAgg ==
  /\ aggregates # NotRendered
  /\ aggregates' = NotRendered
  /\ UNCHANGED <<ledger, invoices, code, classification, balans, intercompany, vat, cashflow, position, filters, requests, api_key, cache, now, calls, metrics>>

NextAgg ==
  \/ \E l \in AggLines : BookAggLine(l)
  \/ RerunAgg
  \/ \E company_id \in {AlleEntiteiten, 1}, api_ok \in BOOLEAN :
       Aggregate(company_id, 1, 3, api_ok)

SpecAgg == InitAgg /\ [][NextAgg]_vars

-----------------------------------------------------------------------------
(* The intercompany run: clearing account lines are booked, then the
   intercompany tab is rendered *)

\* Entries on the clearing accounts: 500.00 debit, 300.00, 200.00, 100.00 and
\* 50.00 credit in each of the three entities, an entity the configuration
\* does not name (4), a second clearing account, a later entry and an entry
\* on another account
ICLines ==
  {Line(6, c, 1, m[1], m[2]) :
     c \in {1, 2, 3},
     m \in {<<50000, 0>>, <<0, 30000>>, <<0, 20000>>, <<0, 10000>>, <<0, 5000>>}}
  \cup {Line(6, 4, 1, 50000, 0), Line(6, 4, 1, 0, 20000)}
  \cup {Line(7, 1, 1, 50000, 0), Line(6, 2, 3, 0, 30000), Line(1, 1, 1, 50000, 0)}

InitIC ==
  /\ ledger = EmptyBag
  /\ invoices = EmptyBag
  /\ code = <<>>
  /\ classification = <<>>
  /\ IdlePages

BookICLine(l) ==
  /\ intercompany = NotRendered
  /\ BagCardinality(ledger) < MaxICLines
  /\ ledger' = ledger (+) SetToBag({l})
  /\ UNCHANGED <<invoices, code, classification, aggregates, balans, intercompany, vat, cashflow, position, filters, requests, api_key, cache, now, calls, metrics>>

\* One run of the intercompany tab with the sidebar's filters
RenderIntercompany(company_id, date_from, date_to, lines_ok) ==
  /\ intercompany = NotRendered
  /\ \E lines \in get_move_lines(IntercompanyDomain(company_id, date_from, date_to),
                                  MoveLinesDefaultLimit, lines_ok) :
       intercompany' = render_intercompany(lines, company_id, date_from, date_to)
  /\ UNCHANGED <<ledger, invoices, code, classification, aggregates, balans, vat, cashflow, position, filters, requests, api_key, cache, now, calls, metrics>>

RerunIC ==
  /\ intercompany # NotRendered
  /\ intercompany' = NotRendered
  /\ UNCHANGED <<ledger, invoices, code, classification, aggregates, balans, vat, cashflow, position, filters, requests, api_key, cache, now, calls, metrics>>

NextIC ==
  \/ \E l \in ICLines : BookICLine(l)
  \/ RerunIC
  \/ \E company_id \in {AlleEntiteiten, 1}, date_to \in {1, 3}, lines_ok \in BOOLEAN :
       RenderIntercompany(company_id, 1, date_to, lines_ok)

SpecIC == InitIC /\ [][NextIC]_vars

-----------------------------------------------------------------------------
(* The cashflow run: invoices and bank lines are booked, then the cashflow
   tab is rendered *)

Invoice(move_type, company_id, invoice_date_due, amount_residual) ==
  [move_type |-> move_type, company_id |-> company_id, invoice_date |-> 1,
   invoice_date_due |-> invoice_date_due, amount_residual |-> amount_residual]

\* The due dates of the runs: before, on and after the forecast starts (8
\* or 9), on either side of the end of week 1 and of week 4
DueDates == {1, 8, 14, 15, 35, 36}

\* Sales invoices of 500.00 on each due date, purchase invoices of 200.00
\* on some, a sales invoice without due date, a paid invoice without due
\* date, credit notes due before, in and after the forecast and an invoice
\* of a second entity
CashflowInvoices ==
  {Invoice("out_invoice", 1, DateString(d), 50000) : d \in DueDates}
  \cup {Invoice("in_invoice", 1, DateString(d), 20000) : d \in {1, 8, 14, 36}}
  \cup {Invoice("out_invoice", 1, OdooFalse, 50000),
        Invoice("in_invoice", 1, OdooFalse, 0),
        Invoice("out_refund", 1, DateString(8), 20000),
        Invoice("out_refund", 1, DateString(1), 20000),
        Invoice("in_refund", 1, DateString(36), 20000),
        Invoice("out_invoice", 2, DateString(8), 50000)}

\* Bank entries of 1000.00 in and 300.00 out, a bank entry of a second
\* entity and an entry on another account
BankLines ==
  {Line(8, 1, 1, 100000, 0), Line(8, 1, 1, 0, 30000), Line(8, 2, 1, 100000, 0),
   Line(1, 1, 1, 100000, 0)}

InitCashflow ==
  /\ ledger = EmptyBag
  /\ invoices = EmptyBag
  /\ code = <<>>
  /\ classification = <<>>
  /\ IdlePages

BookInvoice(inv) ==
  /\ cashflow = NotRendered
  /\ BagCardinality(invoices) < MaxInvoices
  /\ invoices' = invoices (+) SetToBag({inv})
  /\ UNCHANGED <<ledger, code, classification, aggregates, balans, intercompany, vat, cashflow, position, filters, requests, api_key, cache, now, calls, metrics>>

BookBankLine(l) ==
  /\ cashflow = NotRendered
  /\ BagCardinality(ledger) < MaxBankLines
  /\ ledger' = ledger (+) SetToBag({l})
  /\ UNCHANGED <<invoices, code, classification, aggregates, balans, intercompany, vat, cashflow, position, filters, requests, api_key, cache, now, calls, metrics>>

\* One run of the cashflow tab with the sidebar's entity and the tab's
\* start date and number of weeks
RenderCashflow(company_id, start_date, num_weeks, invoices_ok, bank_ok) ==
  /\ cashflow = NotRendered
  /\ \E fetched_invoices \in get_invoices(company_id, None, None,
                                           CashflowInvoiceLimit, invoices_ok),
        bank_lines \in get_move_lines(BankDomain(company_id), MoveLinesDefaultLimit, bank_ok) :
       cashflow' = render_cashflow(fetched_invoices, bank_lines, company_id,
                                   start_date, num_weeks)
  /\ UNCHANGED <<ledger, invoices, code, classification, aggregates, balans, intercompany, vat, position, filters, requests, api_key, cache, now, calls, metrics>>

RerunCashflow ==
  /\ cashflow # NotRendered
  /\ cashflow' = NotRendered
  /\ UNCHANGED <<ledger, invoices, code, classification, aggregates, balans, intercompany, vat, position, filters, requests, api_key, cache, now, calls, metrics>>

\* The selectbox offers 4, 8, 12, 16 and 24 weeks; the runs take the
\* shortest and the preselected one
NextCashflow ==
  \/ \E inv \in CashflowInvoices : BookInvoice(inv)
  \/ \E l \in BankLines : BookBankLine(l)
  \/ RerunCashflow
  \/ \E company_id \in {AlleEntiteiten, 1}, start_date \in {8, 9}, num_weeks \in {4, 12},
        invoices_ok \in BOOLEAN, bank_ok \in BOOLEAN :
       RenderCashflow(company_id, start_date, num_weeks, invoices_ok, bank_ok)

SpecCashflow == InitCashflow /\ [][NextCashflow]_vars

-----------------------------------------------------------------------------
(* The VAT run: lines on the VAT accounts are booked, then the VAT tab is
   rendered *)

\* Input VAT of 1200.00 and 900.00 (debit on 152000), output VAT of 900.00
\* and 1200.00 (credit on 150000) in two entities; a credit on the input and
\* a debit on the output account; output VAT EU; debits and credits of
\* 100.00 on the Belgian accounts; a line before the period, a line of an
\* entity the configuration does not name and a line on another account
VatLines ==
  {Line(11, c, 2, m, 0) : c \in {1, 2}, m \in {120000, 90000}}
  \cup {Line(9, c, 2, 0, m) : c \in {1, 2}, m \in {120000, 90000}}
  \cup {Line(11, 1, 2, 0, 90000), Line(9, 1, 2, 90000, 0), Line(10, 1, 2, 0, 90000)}
  \cup {Line(12, 1, 2, 10000, 0), Line(12, 1, 2, 0, 10000), Line(13, 1, 2, 10000, 0),
        Line(13, 2, 2, 10000, 0), Line(13, 1, 2, 0, 10000), Line(14, 1, 2, 10000, 0)}
  \cup {Line(11, 1, 1, 120000, 0), Line(11, 4, 2, 120000, 0), Line(1, 1, 2, 120000, 0)}

InitVat ==
  /\ ledger = EmptyBag
  /\ invoices = EmptyBag
  /\ code = <<>>
  /\ classification = <<>>
  /\ IdlePages

BookVatLine(l) ==
  /\ vat = NotRendered
  /\ BagCardinality(ledger) < MaxVatLines
  /\ ledger' = ledger (+) SetToBag({l})
  /\ UNCHANGED <<invoices, code, classification, aggregates, balans, intercompany, vat, cashflow, position, filters, requests, api_key, cache, now, calls, metrics>>

\* One run of the VAT tab with the sidebar's filters
RenderVat(company_id, date_from, date_to, lines_ok) ==
  /\ vat = NotRendered
  /\ \E lines \in get_move_lines(VatDomain(company_id, date_from, date_to),
                                  MoveLinesDefaultLimit, lines_ok) :
       vat' = render_vat_analysis(lines, company_id, date_from, date_to)
  /\ UNCHANGED <<ledger, invoices, code, classification, aggregates, balans, intercompany, cashflow,
                 position, filters, requests, api_key, cache, now, calls, metrics>>

RerunVat ==
  /\ vat # NotRendered
  /\ vat' = NotRendered
  /\ UNCHANGED <<ledger, invoices, code, classification, aggregates, balans, intercompany, cashflow,
                 position, filters, requests, api_key, cache, now, calls, metrics>>

NextVat ==
  \/ \E l \in VatLines : BookVatLine(l)
  \/ RerunVat
  \/ \E company_id \in {AlleEntiteiten, 1}, date_from \in {1, 2}, lines_ok \in BOOLEAN :
       RenderVat(company_id, date_from, 3, lines_ok)

SpecVat == InitVat /\ [][NextVat]_vars

-----------------------------------------------------------------------------
(* The run of the script: the sidebar, then the nine tabs in their order,
   each call of a fetch function logged with the request it stands for (a
   call answered by the cache sends none) *)

InitRequests ==
  /\ IdleData
  /\ code = <<>>
  /\ classification = <<>>
  /\ aggregates = NotRendered
  /\ balans = NotRendered
  /\ intercompany = NotRendered
  /\ vat = NotRendered
  /\ cashflow = NotRendered
  /\ position = "sidebar"
  /\ filters = NoFilters
  /\ requests = <<>>
  /\ api_key \in BOOLEAN
  /\ metrics = NotRendered
  /\ IdleCache

\* What a step of the run leaves alone
RunFrame ==
  UNCHANGED <<ledger, invoices, code, classification, aggregates, balans, intercompany,
              vat, cashflow, cache, now, calls, metrics>>

\* render_sidebar and main going on to the companies and the tabs whether
\* or not there is a key
SidebarWithoutKeyCheck(typed_key, companies_ok, company_id, date_from, date_to) ==
  /\ position = "sidebar"
  /\ requests' = Append(requests, get_companies_request)
  /\ filters' = IF companies_ok
                THEN [company_id |-> company_id, date_from |-> date_from,
                      date_to |-> date_to]
                ELSE NoFilters
  /\ api_key' = api_key
  /\ position' = "overview"
  /\ RunFrame

\* render_sidebar and the start of main.  Without API key the key field is
\* shown: a key typed there is kept in the session and the script reruns,
\* otherwise main returns with nothing rendered.  With a key the companies
\* are fetched and the filters returned.
Sidebar(typed_key, companies_ok, company_id, date_from, date_to) ==
  /\ position = "sidebar"
  /\ IF ~api_key
     THEN /\ filters' = NoFilters
          /\ requests' = requests
          /\ api_key' = typed_key
          /\ position' = IF typed_key THEN "sidebar" ELSE "done"
     ELSE /\ requests' = Append(requests, get_companies_request)
          /\ filters' = IF companies_ok
                        THEN [company_id |-> company_id, date_from |-> date_from,
                              date_to |-> date_to]
                        ELSE NoFilters
          /\ api_key' = api_key
          /\ position' = "overview"
  /\ RunFrame

Overview ==
  /\ position = "overview"
  /\ requests' = Append(requests, get_invoices_request(filters.company_id, filters.date_from,
                                                        filters.date_to))
  /\ position' = "profit_loss"
  /\ UNCHANGED <<filters, api_key>>
  /\ RunFrame

ProfitLoss ==
  /\ position = "profit_loss"
  /\ requests' = requests
       \o <<get_move_lines_request(ProfitLossDomain(filters.company_id, filters.date_from,
                                                    filters.date_to)),
            get_accounts_request>>
  /\ position' = "balans"
  /\ UNCHANGED <<filters, api_key>>
  /\ RunFrame

Balans ==
  /\ position = "balans"
  /\ requests' = requests
       \o <<get_move_lines_request(BalanceSheetDomain(filters.company_id, filters.date_from,
                                                      filters.date_to)),
            get_accounts_request>>
  /\ position' = "intercompany"
  /\ UNCHANGED <<filters, api_key>>
  /\ RunFrame

Intercompany ==
  /\ position = "intercompany"
  /\ requests' = Append(requests,
                        get_move_lines_request(IntercompanyDomain(filters.company_id,
                                                                  filters.date_from,
                                                                  filters.date_to)))
  /\ position' = "vat"
  /\ UNCHANGED <<filters, api_key>>
  /\ RunFrame

Vat ==
  /\ position = "vat"
  /\ requests' = Append(requests,
                        get_move_lines_request(VatDomain(filters.company_id, filters.date_from,
                                                         filters.date_to)))
  /\ position' = "invoices"
  /\ UNCHANGED <<filters, api_key>>
  /\ RunFrame

\* render_invoices: with invoices listed the user may have pressed the PDF
\* button of one (pdf is its id, None when not pressed)
Invoices(has_invoices, pdf) ==
  /\ position = "invoices"
  /\ requests' = Append(requests, get_invoices_request(filters.company_id, filters.date_from,
                                                        filters.date_to))
                 \o (IF has_invoices /\ pdf # None THEN <<get_invoice_pdf_request(pdf)>>
                     ELSE <<>>)
  /\ position' = "bank"
  /\ UNCHANGED <<filters, api_key>>
  /\ RunFrame

Bank ==
  /\ position = "bank"
  /\ requests' = Append(requests,
                        get_move_lines_request(BankTabDomain(filters.company_id,
                                                             filters.date_from,
                                                             filters.date_to)))
  /\ position' = "cashflow"
  /\ UNCHANGED <<filters, api_key>>
  /\ RunFrame

\* render_cashflow: the bank lines are fetched when there are open
\* invoices; an exception ends the run
Cashflow(status) ==
  /\ position = "cashflow"
  /\ requests' = Append(requests, get_invoices_request(filters.company_id, None, None))
                 \o (IF status \in {"exception", "ok"}
                     THEN <<get_move_lines_request(BankDomain(filters.company_id))>>
                     ELSE <<>>)
  /\ position' = IF status = "exception" THEN "done" ELSE "products"
  /\ UNCHANGED <<filters, api_key>>
  /\ RunFrame

Products ==
  /\ position = "products"
  /\ requests' = requests \o <<get_products_request, get_product_categories_request>>
  /\ position' = "done"
  /\ UNCHANGED <<filters, api_key>>
  /\ RunFrame

\* The script is run again
RerunScript ==
  /\ position = "done"
  /\ position' = "sidebar"
  /\ filters' = NoFilters
  /\ requests' = <<>>
  /\ UNCHANGED api_key
  /\ RunFrame

NextRequests ==
  \/ \E typed_key \in BOOLEAN, companies_ok \in BOOLEAN, company_id \in {None, 1, 2, 3},
        date_from \in Dates, date_to \in Dates :
       /\ date_from <= date_to
       /\ Sidebar(typed_key, companies_ok, company_id, date_from, date_to)
  \/ Overview
  \/ ProfitLoss
  \/ Balans
  \/ Intercompany
  \/ Vat
  \/ \E has_invoices \in BOOLEAN, pdf \in {None, 1, 2} : Invoices(has_invoices, pdf)
  \/ Bank
  \/ \E status \in {"geen_factuurdata", "geen_openstaand", "exception", "ok"} :
       Cashflow(status)
  \/ Products
  \/ RerunScript

SpecRequests == InitRequests /\ [][NextRequests]_vars

-----------------------------------------------------------------------------
(* The cached fetch: get_move_lines is called by the renders while time
   passes, the accounting system books lines and the user may press
   "Ververs Data" *)

CacheLines == {Line(1, 1, 1, 100, 0), Line(2, 2, 1, 0, 100)}

\* The queries of the renders: the balance sheet of all entities and of
\* entity 1
CacheKeys == {BalanceSheetDomain(AlleEntiteiten, 1, 3), BalanceSheetDomain(1, 1, 3)}

InitCache ==
  /\ IdleData
  /\ code = <<>>
  /\ classification = <<>>
  /\ aggregates = NotRendered
  /\ balans = NotRendered
  /\ intercompany = NotRendered
  /\ vat = NotRendered
  /\ cashflow = NotRendered
  /\ position = "idle"
  /\ filters = NoFilters
  /\ requests = <<>>
  /\ api_key = TRUE
  /\ metrics = NotRendered
  /\ IdleCache

CacheFrame ==
  UNCHANGED <<invoices, code, classification, aggregates, balans, intercompany, vat,
              cashflow, position, filters, requests, api_key, metrics>>

\* The accounting system books a line
BookCacheLine(l) ==
  /\ BagCardinality(ledger) < MaxCacheLines
  /\ ledger' = ledger (+) SetToBag({l})
  /\ UNCHANGED <<cache, now, calls, metrics>>
  /\ CacheFrame

\* Time passes
Tick ==
  /\ now + TimeStep <= MaxTime
  /\ now' = now + TimeStep
  /\ UNCHANGED <<ledger, cache, calls, metrics>>
  /\ CacheFrame

\* A render calls get_move_lines(domain, fields): a stored result that has
\* not expired is returned; otherwise odoo_call runs (and fails when the
\* data source does not answer) and what it returns is stored
CallGetMoveLines(domain, api_ok) ==
  /\ Len(calls) < MaxCachedCalls
  /\ IF domain \in DOMAIN cache /\ Fresh(cache[domain], now)
     THEN /\ calls' = Append(calls, CallEvent(domain, now, FALSE, cache[domain].result))
          /\ cache' = cache
     ELSE \E result \in get_move_lines(domain, MoveLinesDefaultLimit, api_ok) :
            /\ calls' = Append(calls, CallEvent(domain, now, TRUE, result))
            /\ cache' = Store(cache, domain, result, now)
  /\ UNCHANGED <<ledger, now>>
  /\ CacheFrame

\* The button "Ververs Data": st.cache_data.clear() and a rerun
Refresh ==
  /\ Len(calls) < MaxCachedCalls
  /\ cache' = EmptyCache
  /\ calls' = Append(calls, RefreshEvent(now))
  /\ UNCHANGED <<ledger, now>>
  /\ CacheFrame

NextCache ==
  \/ \E l \in CacheLines : BookCacheLine(l)
  \/ Tick
  \/ \E domain \in CacheKeys, api_ok \in BOOLEAN : CallGetMoveLines(domain, api_ok)
  \/ Refresh

SpecCache == InitCache /\ [][NextCache]_vars

-----------------------------------------------------------------------------
(* The balance sheet of a large ledger: the accounting system books single
   lines and one batch of equal lines (an import, a year of daily entries),
   then the tab is rendered *)

\* The line booked BatchSize times and the lines booked one at a time
BatchLines == {Line(3, 1, 1, 0, 100), Line(1, 1, 1, 100, 0)}

LimitLines ==
  {Line(1, 1, 1, 100, 0), Line(2, 1, 1, 0, 100), Line(4, 1, 2, 100, 0),
   Line(3, 1, 2, 0, 100), Line(1, 2, 1, 100, 0)}

InitLimit == InitBalans

\* The records of the ledger that were booked in the batch
Batched == {l \in DOMAIN ledger : ledger[l] >= BatchSize}

BookBatch(l) ==
  /\ balans = NotRendered
  /\ Batched = {}
  /\ ledger' = ledger (+) [x \in {l} |-> BatchSize]
  /\ UNCHANGED <<invoices, code, classification, aggregates, balans, intercompany, vat, cashflow, position, filters, requests, api_key, cache, now, calls, metrics>>

BookLimitLine(l) ==
  /\ balans = NotRendered
  /\ BagCardinality(ledger) - (IF Batched = {} THEN 0 ELSE BatchSize) < MaxLimitLines
  /\ ledger' = ledger (+) SetToBag({l})
  /\ UNCHANGED <<invoices, code, classification, aggregates, balans, intercompany, vat, cashflow, position, filters, requests, api_key, cache, now, calls, metrics>>

NextLimit ==
  \/ \E l \in BatchLines : BookBatch(l)
  \/ \E l \in LimitLines : BookLimitLine(l)
  \/ RerunBalans
  \/ \E company_id \in {AlleEntiteiten, 1}, date_to \in {1, 2}, lines_ok \in BOOLEAN :
       RenderBalanceSheet(company_id, 1, date_to, lines_ok, TRUE)

SpecLimit == InitLimit /\ [][NextLimit]_vars

-----------------------------------------------------------------------------
(* The ratio metrics: totals of a period, an invoice filter and a product
   list are given, then the three tabs show their ratios *)

\* product.product records: name, list price and cost price in cents
ProductRecords ==
  { [name |-> "Verf", list_price |-> 1000, standard_price |-> 600],
    [name |-> "Kwast", list_price |-> 1000, standard_price |-> 0],
    [name |-> "Staal", list_price |-> 0, standard_price |-> 600],
    [name |-> "Dienst", list_price |-> 0, standard_price |-> 0] }

\* Sums of amount_total and amount_residual of the filtered invoices
InvoiceSums == { <<0, 0>>, <<10000, 0>>, <<10000, 2500>> }

InitRatios ==
  /\ IdleData
  /\ code = <<>>
  /\ classification = <<>>
  /\ aggregates = NotRendered
  /\ balans = NotRendered
  /\ intercompany = NotRendered
  /\ vat = NotRendered
  /\ cashflow = NotRendered
  /\ position = "idle"
  /\ filters = NoFilters
  /\ requests = <<>>
  /\ api_key = TRUE
  /\ IdleCache
  /\ \E total_income \in {-10000, 0, 20000}, total_expense \in {0, 5000, 30000},
        sums \in InvoiceSums, products \in SeqsUpTo(ProductRecords, MaxProducts) :
       metrics = [status |-> "totals",
                  total_income |-> total_income, total_expense |-> total_expense,
                  amount_total |-> sums[1], amount_residual |-> sums[2],
                  products |-> products,
                  bruto_marge |-> Pending, betaald_pct |-> Pending,
                  marge_analyse |-> Pending]

RatiosFrame ==
  UNCHANGED <<ledger, invoices, code, classification, aggregates, balans, intercompany,
              vat, cashflow, position, filters, requests, api_key, cache, now, calls>>

\* render_profit_loss shows the gross margin
ShowBrutoMarge ==
  /\ metrics.bruto_marge = Pending
  /\ metrics' = [metrics EXCEPT
                   !.bruto_marge = BrutoMarge(metrics.total_income, metrics.total_expense)]
  /\ RatiosFrame

\* render_invoices shows the paid percentage
ShowBetaaldPct ==
  /\ metrics.betaald_pct = Pending
  /\ metrics' = [metrics EXCEPT
                   !.betaald_pct = BetaaldPct(metrics.amount_total, metrics.amount_residual)]
  /\ RatiosFrame

\* render_products shows the margin analysis (with products fetched)
ShowMargeAnalyse ==
  /\ metrics.marge_analyse = Pending
  /\ metrics.products # <<>>
  /\ metrics' = [metrics EXCEPT !.marge_analyse = MargeAnalyse(metrics.products)]
  /\ RatiosFrame

NextRatios ==
  \/ ShowBrutoMarge
  \/ ShowBetaaldPct
  \/ ShowMargeAnalyse

SpecRatios == InitRatios /\ [][NextRatios]_vars

-----------------------------------------------------------------------------
(* Properties of the classifier *)

Sections == {"activa", "passiva", "resultaat", "off_balance", "overig"}

Subsections ==
  {"immateriele_activa", "materiele_activa", "financiele_activa", "vorderingen",
   "effecten", "liquide_middelen", "voorraden", "onderhanden_werk", "kosten",
   "eigen_vermogen", "voorzieningen", "schulden_lang", "schulden_kort",
   "opbrengsten", "buitengewoon", "statistisch", "overig"}

C30_PredicatesAgree ==
  \A i \in DOMAIN classification :
    is_balance_sheet_account(code) <=> classification[i][1] \in {"activa", "passiva"}

\* C30 witness: a code with a prefix and a blank before its one digit is a
\* balance sheet account for both, and so classified as passiva
C30_Witness ==
  /\ code = <<"A", " ", "5">>
  /\ Len(classification) = 1
  /\ classification[1][1] = "passiva"
  /\ is_balance_sheet_account(code)

\* The positions of the digits of a code
DigitPositions(c) == {i \in DOMAIN c : c[i] \in DigitChars}

\* The leading digit run of a code: from its first digit up to the last
\* digit before the first non-digit after it; empty when it has no digit
LeadingDigitRun(c) ==
  IF DigitPositions(c) = {} THEN <<>>
  ELSE LET first == CHOOSE i \in DigitPositions(c) : \A j \in DigitPositions(c) : i <= j
           last == CHOOSE k \in first..Len(c) :
                     /\ \A m \in first..k : m \in DigitPositions(c)
                     /\ k = Len(c) \/ (k + 1) \notin DigitPositions(c)
       IN SubSeq(c, first, last)

\* The digit-range table: first two digits from lo to hi, section and
\* subsection ("" where only the section is fixed)
DigitRangeTable ==
  { [lo |-> 0, hi |-> 3, section |-> "activa", subsection |-> "immateriele_activa"],
    [lo |-> 4, hi |-> 6, section |-> "activa", subsection |-> "materiele_activa"],
    [lo |-> 7, hi |-> 9, section |-> "activa", subsection |-> "financiele_activa"],
    [lo |-> 10, hi |-> 13, section |-> "activa", subsection |-> "vorderingen"],
    [lo |-> 14, hi |-> 16, section |-> "activa", subsection |-> "effecten"],
    [lo |-> 17, hi |-> 19, section |-> "activa", subsection |-> "liquide_middelen"],
    [lo |-> 20, hi |-> 39, section |-> "activa", subsection |-> ""],
    [lo |-> 40, hi |-> 49, section |-> "resultaat", subsection |-> "kosten"],
    [lo |-> 50, hi |-> 54, section |-> "passiva", subsection |-> "eigen_vermogen"],
    [lo |-> 55, hi |-> 56, section |-> "passiva", subsection |-> "voorzieningen"],
    [lo |-> 57, hi |-> 58, section |-> "passiva", subsection |-> "schulden_lang"],
    [lo |-> 59, hi |-> 59, section |-> "passiva", subsection |-> "schulden_kort"],
    [lo |-> 60, hi |-> 69, section |-> "resultaat", subsection |-> "kosten"],
    [lo |-> 70, hi |-> 79, section |-> "resultaat", subsection |-> "opbrengsten"],
    [lo |-> 80, hi |-> 89, section |-> "resultaat", subsection |-> "buitengewoon"],
    [lo |-> 90, hi |-> 99, section |-> "off_balance", subsection |-> ""] }

\* The rows of the table a digit run falls in: by its first two digits,
\* by its first digit alone when it has one digit
RowsOfRun(run) ==
  IF Len(run) >= 2
  THEN {t \in DigitRangeTable :
          LET n == 10 * DigitValue(run[1]) + DigitValue(run[2])
          IN t.lo <= n /\ n <= t.hi}
  ELSE {t \in DigitRangeTable :
          t.lo <= 10 * DigitValue(run[1]) + 9 /\ 10 * DigitValue(run[1]) <= t.hi}

\* C21: a code is classified by its leading digit run: the section by the
\* first digit and the subsection by the first two digits as the table
\* says (0 fixed assets, 1 current assets, 2 and 3 assets, 4 and 6 expense,
\* 5 equity, provisions and debt, 7 income, 8 extraordinary, 9
\* off-balance); what stands before the run and after it changes nothing,
\* and a code without a digit is (overig, overig, debit).
C21_ClassifiedByLeadingDigits ==
  \A i \in DOMAIN classification :
    LET run == LeadingDigitRun(code)
        result == classification[i]
    IN /\ run = <<>> => result = <<"overig", "overig", TRUE>>
       /\ run # <<>> =>
            /\ \E t \in RowsOfRun(run) :
                 /\ result[1] = t.section
                 /\ t.subsection # "" => result[2] = t.subsection
            /\ result = classify_dutch_account(run)

\* C21 witness: a code with a prefix and, after a blank, a second digit
\* run is classified by its first run alone
C21_Witness ==
  /\ code = <<"A", "5", " ", "9">>
  /\ Len(classification) = 1
  /\ classification[1] = <<"passiva", "eigen_vermogen", FALSE>>

-----------------------------------------------------------------------------
(* Properties of the balance sheet *)

\* Sum of column col over the records S of bag B
RECURSIVE SumRecords(_, _, _)
SumRecords(B, S, col) ==
  IF S = {} THEN 0
  ELSE LET x == CHOOSE y \in S : TRUE
       IN x[col] * B[x] + SumRecords(B, S \ {x}, col)

\* debit - credit summed over a bag of ledger lines
NetDebit(B) == SumRecords(B, DOMAIN B, "debit") - SumRecords(B, DOMAIN B, "credit")

\* The section of the account a ledger line is booked on
LineSection(l) ==
  IF \E a \in ChartOfAccounts : a.id = l.account_id
  THEN classify_dutch_account((CHOOSE a \in ChartOfAccounts : a.id = l.account_id).code)[1]
  ELSE "overig"

\* The posted lines of the selected entity dated from lo to hi
PostedBetween(company_id, lo, hi) ==
  RestrictBag(ledger, {l \in DOMAIN ledger :
                          /\ l.parent_state = "posted"
                          /\ company_id = AlleEntiteiten \/ l.company_id = company_id
                          /\ l.date >= lo
                          /\ l.date <= hi})

FirstDate == CHOOSE d \in Dates : \A e \in Dates : d <= e

\* The posted lines of the shown balance sheet's entity up to its date_to
ShownUpTo == PostedBetween(balans.company_id, FirstDate, balans.date_to)

InSection(B, sections) == RestrictBag(B, {l \in DOMAIN B : LineSection(l) \in sections})

\* C1: when the posted lines up to date_to balance (debit - credit sums to
\* zero over all accounts), the shown balance sheet has residual 0 and is
\* shown as closed, whatever the accounts.
C1_BalancedLedgerCloses ==
  (balans.status = "ok" /\ NetDebit(ShownUpTo) = 0)
    => (balans.balance_check = 0 /\ balans.check = "Sluit")

\* C2: when the posted lines are off balance by eps of more than 0.01 (one
\* cent), the balance sheet shows a discrepancy whose residual is eps in
\* absolute value; it is shown closed only when the absolute residual is
\* below 0.01.
C2_DiscrepancyAboveOneCent ==
  balans.status = "ok" =>
    LET eps == Abs(NetDebit(ShownUpTo))
    IN /\ eps > 1 => (balans.check = "Verschil" /\ Abs(balans.balance_check) = eps)
       /\ balans.check = "Sluit" => Abs(balans.balance_check) < 1

\* The figures of a rendered balance sheet
Figures(page) ==
  <<page.total_activa, page.total_passiva, page.total_eigen_vermogen,
    page.result_year, page.balance_check, page.check, page.type_summary>>

\* C4: a line on an account outside assets, liabilities, income and expense
\* (section overig or off_balance, or an account id the chart does not hold)
\* is never left out silently: taking the line away changes a figure of the
\* page.
C4_UnclassifiedLineIsNotDropped ==
  balans.status = "ok" =>
    \A l \in DOMAIN ShownUpTo :
      (LineSection(l) \in {"overig", "off_balance"} /\ l.debit # l.credit) =>
        LET without ==
              render_balance_sheet(
                Fetched(BagToRows(ShownUpTo (-) SetToBag({l}))),
                [ok |-> TRUE, rows |-> ChartOfAccounts],
                balans.company_id, balans.date_from, balans.date_to)
        IN without.status # "ok" \/ Figures(without) # Figures(balans)

\* C5: the result of the year shown on the balance sheet is credit - debit of
\* the income and expense lines dated within [date_from, date_to] only.
C5_ResultYearWithinPeriod ==
  balans.status = "ok" =>
    balans.result_year =
      - NetDebit(InSection(PostedBetween(balans.company_id, balans.date_from,
                                         balans.date_to), {"resultaat"}))

\* C6: total_activa and total_passiva are cumulative: every posted line of
\* the selected entity on an asset (liability) account dated on or before
\* date_to is in total_activa (total_passiva), lines before date_from
\* included, and no line after date_to.
C6_TotalsAreCumulative ==
  balans.status = "ok" =>
    /\ balans.total_activa = NetDebit(InSection(ShownUpTo, {"activa"}))
    /\ balans.total_passiva = - NetDebit(InSection(ShownUpTo, {"passiva"}))

\* C6 witness: with the period [2, 2], an asset line of date 1 is in the
\* total and an asset line of date 3 is not
C6_Witness ==
  /\ balans.status = "ok"
  /\ balans.date_from = 2
  /\ balans.date_to = 2
  /\ ledger = SetToBag({Line(1, 1, 1, 100, 0), Line(1, 1, 3, 0, 100)})
  /\ balans.total_activa = 100

\* The classifier's triple for the account a ledger line is booked on
LineClassification(l) ==
  IF \E a \in ChartOfAccounts : a.id = l.account_id
  THEN classify_dutch_account((CHOOSE a \in ChartOfAccounts : a.id = l.account_id).code)
  ELSE <<"overig", "overig", TRUE>>

\* The lines of B booked on accounts of the given subsections
InSubsection(B, subsections) ==
  RestrictBag(B, {l \in DOMAIN B : LineClassification(l)[2] \in subsections})

\* The presented amount of a bag of lines: each line on the side its
\* account's normal-balance flag names
RECURSIVE PresentedOver(_, _)
PresentedOver(B, S) ==
  IF S = {} THEN 0
  ELSE LET l == CHOOSE y \in S : TRUE
       IN (IF LineClassification(l)[3] THEN l.debit - l.credit
           ELSE l.credit - l.debit) * B[l]
          + PresentedOver(B, S \ {l})

Presented(B) == PresentedOver(B, DOMAIN B)

ShownIncome == InSubsection(ShownUpTo, {"opbrengsten"})

ShownExpense == InSubsection(ShownUpTo, {"kosten", "buitengewoon"})

\* C16: over the lines the balance sheet shows, the result of the year is
\* presented income minus presented expense, income (class 7) as credit -
\* debit and expense (classes 4, 6, 8) as debit - credit; total assets are
\* debit - credit and total liabilities and equity credit - debit; each of
\* these is the side the classifier's normal-balance flag of the account
\* names.
C16_ResultAndTotalsUseNormalBalance ==
  balans.status = "ok" =>
    /\ balans.result_year = Presented(ShownIncome) - Presented(ShownExpense)
    /\ Presented(ShownIncome) = - NetDebit(ShownIncome)
    /\ Presented(ShownExpense) = NetDebit(ShownExpense)
    /\ balans.total_activa = Presented(InSection(ShownUpTo, {"activa"}))
    /\ Presented(InSection(ShownUpTo, {"activa"})) = NetDebit(InSection(ShownUpTo, {"activa"}))
    /\ balans.total_passiva = Presented(InSection(ShownUpTo, {"passiva"}))
    /\ Presented(InSection(ShownUpTo, {"passiva"}))
         = - NetDebit(InSection(ShownUpTo, {"passiva"}))

\* C16 witness: an extraordinary expense (class 8) of 1.00 booked against
\* equity: total_passiva is 1.00 and the result of the year -1.00
C16_Witness ==
  /\ balans.status = "ok"
  /\ ledger = SetToBag({Line(15, 1, 2, 100, 0), Line(2, 1, 2, 0, 100)})
  /\ balans.total_passiva = 100
  /\ balans.result_year = -100
  /\ balans.check = "Sluit"

\* The balance-sheet subsections that have a line among the shown lines
ShownSubsections ==
  {LineClassification(l)[2] : l \in DOMAIN InSection(ShownUpTo, {"activa", "passiva"})}

\* C23: the diagnosis is on the page in exactly the renders whose check
\* shows a discrepancy (absolute residual of 1.00 or more), never with
\* 'Sluit'; it lists the signed subtotal of every subsection and, when
\* lines on unclassified accounts (overig, off_balance) leave a residual,
\* that residual.
C23_DiagnosisListsEveryResidual ==
  balans.status = "ok" =>
    /\ balans.diagnose <=> balans.check = "Verschil"
    /\ balans.diagnose <=> Abs(balans.balance_check) >= BalansTolerance
    /\ balans.diagnose =>
         /\ \A sub \in ShownSubsections :
              \E r \in balans.type_summary :
                /\ r.nl_subcategory = sub
                /\ r.saldo = Presented(InSubsection(ShownUpTo, {sub}))
         /\ LET unclassified == InSection(ShownUpTo, {"overig", "off_balance"})
            IN NetDebit(unclassified) # 0 =>
                 \E r \in balans.type_summary :
                   /\ r.nl_subcategory \in {"overig", "statistisch"}
                   /\ Abs(r.saldo) = Abs(NetDebit(unclassified))

\* C25: however many posted lines the ledger holds, every posted line of
\* the selected entity dated on or before date_to is in the totals of the
\* balance sheet: total_activa, total_passiva and result_year are the sums
\* over all of them.
C25_EveryLineIsInTheTotals ==
  balans.status = "ok" =>
    /\ balans.total_activa = NetDebit(InSection(ShownUpTo, {"activa"}))
    /\ balans.total_passiva = - NetDebit(InSection(ShownUpTo, {"passiva"}))
    /\ balans.result_year = - NetDebit(InSection(ShownUpTo, {"resultaat"}))

-----------------------------------------------------------------------------
(* Properties of the aggregation *)

\* Every group of the three summaries of a run
AllGroups == aggregates.pl \cup aggregates.balance \cup aggregates.intercompany

\* C7: in every group the aggregation produces (per account in calculate_pl
\* and calculate_balance_sheet, per entity and account in render_intercompany)
\* the summed balance equals summed debit minus summed credit: the balance
\* of a group is derived from its debit and credit sums.
C7_GroupBalanceIsDebitMinusCredit ==
  aggregates.status = "ok" =>
    \A g \in AllGroups : g.balance = g.debit - g.credit

-----------------------------------------------------------------------------
(* Properties of the intercompany monitor *)

\* The posted clearing account lines of the shown entity up to date_to
ShownClearing ==
  LET shown == PostedBetween(intercompany.company_id, FirstDate, intercompany.date_to)
  IN RestrictBag(shown, {l \in DOMAIN shown : l.account_id \in {6, 7}})

\* C8: the monitor shows "closed" when the absolute sum of the net clearing
\* balances of the entities is at most 100.00 and a discrepancy, with that
\* sum as its amount, when it is above 100.00.
C8_ClosedWithinTolerance ==
  intercompany.status = "ok" =>
    LET residual == NetDebit(ShownClearing)
    IN /\ Abs(residual) <= 10000 => intercompany.check = "sluit_aan"
       /\ Abs(residual) > 10000 =>
            (intercompany.check = "waarschuwing" /\ intercompany.total_all = residual)

\* C17: the residual the monitor compares with the tolerance is the sum of
\* the clearing-account balances of all entities present in the fetched
\* lines: a line of an entity outside the three configured companies is in
\* the total too.
C17_ResidualCoversEveryEntity ==
  intercompany.status = "ok" =>
    intercompany.total_all
      = SumRecords(ShownClearing, DOMAIN ShownClearing, "balance")

-----------------------------------------------------------------------------
(* Properties of the cashflow forecast *)

\* The cumulative balance before week k: the bank balance before week 1
Previous(k) ==
  IF k = 1 THEN cashflow.current_balance ELSE cashflow.weeks[k - 1].Cumulatief

\* C9: in each week of the forecast the net is incoming minus outgoing and
\* the cumulative balance is the cumulative balance of the week before plus
\* the week's net, the first week starting from the bank balance; a week
\* with no invoices keeps the cumulative balance of the week before.
C9_CumulativeRecurrence ==
  cashflow.status = "ok" =>
    \A k \in DOMAIN cashflow.weeks :
      LET w == cashflow.weeks[k]
          incoming == w.Inkomend
          outgoing == - w.Uitgaand
      IN /\ w.Netto = incoming - outgoing
         /\ w.Cumulatief = Previous(k) + w.Netto
         /\ (w.Aantal_in = 0 /\ w.Aantal_uit = 0) => w.Cumulatief = Previous(k)

\* C9 witness: bank balance 1000.00, 200.00 to pay in week 1 and 500.00 to
\* receive in week 2, forecast of 4 weeks: 800.00, 1300.00, 1300.00, 1300.00
C9_Witness ==
  /\ cashflow.status = "ok"
  /\ cashflow.start_date = 8
  /\ cashflow.num_weeks = 4
  /\ ledger = SetToBag({Line(8, 1, 1, 100000, 0)})
  /\ invoices = SetToBag({Invoice("in_invoice", 1, DateString(14), 20000),
                          Invoice("out_invoice", 1, DateString(15), 50000)})
  /\ cashflow.current_balance = 100000
  /\ [k \in 1..4 |-> cashflow.weeks[k].Cumulatief] = <<80000, 130000, 130000, 130000>>

\* The open invoices of one move type the shown forecast is about
OpenInvoices(move_type) ==
  RestrictBag(invoices, {r \in DOMAIN invoices :
                           /\ r.move_type = move_type
                           /\ r.amount_residual > 0
                           /\ cashflow.company_id = AlleEntiteiten
                                \/ r.company_id = cashflow.company_id})

\* The amount an expander reports in one direction: nothing when not shown
Reported(expander, direction) == IF expander.shown THEN expander[direction] ELSE 0

RECURSIVE SumWeeks(_, _)
SumWeeks(weeks, col) ==
  IF weeks = <<>> THEN 0 ELSE Head(weeks)[col] + SumWeeks(Tail(weeks), col)

\* C10: in a forecast every open receivable and payable (all due dates
\* valid) is counted once: the overdue amount, the amounts of the weeks and
\* the amount after the forecast add up to the total open amount, to
\* receive and to pay alike.
C10_OpenAmountsAreAllCounted ==
  cashflow.status = "ok" =>
    /\ Reported(cashflow.overdue, "incoming") + SumWeeks(cashflow.weeks, "Inkomend")
         + Reported(cashflow.future, "incoming")
       = SumRecords(OpenInvoices("out_invoice"), DOMAIN OpenInvoices("out_invoice"),
                    "amount_residual")
    /\ Reported(cashflow.overdue, "outgoing") - SumWeeks(cashflow.weeks, "Uitgaand")
         + Reported(cashflow.future, "outgoing")
       = SumRecords(OpenInvoices("in_invoice"), DOMAIN OpenInvoices("in_invoice"),
                    "amount_residual")

\* C10 witness: a forecast of 4 weeks from day 8 with a receivable due on
\* the last day of week 4 and one due the day after, the first in the week
\* and the second after the forecast
C10_Witness ==
  /\ cashflow.status = "ok"
  /\ cashflow.start_date = 8
  /\ cashflow.num_weeks = 4
  /\ invoices = SetToBag({Invoice("out_invoice", 1, DateString(35), 50000),
                          Invoice("out_invoice", 1, DateString(36), 50000)})
  /\ cashflow.weeks[4].Inkomend = 50000
  /\ cashflow.future.shown
  /\ cashflow.future.incoming = 50000
  /\ ~cashflow.overdue.shown

\* C11: an open invoice whose due date is missing or cannot be parsed is
\* left out of every week of the forecast without aborting the render of
\* the cashflow tab (and still counts in the open amounts of the overview):
\* with such an invoice in the data source no run of the tab ends in an
\* exception.
C11_MissingDueDateDoesNotAbort ==
  (\E r \in DOMAIN invoices : r.amount_residual > 0 /\ r.invoice_date_due = OdooFalse)
    => cashflow.status # "exception"

\* The open invoices of one move type due on a day from lo up to, not
\* including, hi
OpenDueWithin(move_type, lo, hi) ==
  LET open == OpenInvoices(move_type)
  IN RestrictBag(open, {r \in DOMAIN open :
                          /\ r.invoice_date_due # OdooFalse
                          /\ ToDatetime(r.invoice_date_due) >= lo
                          /\ ToDatetime(r.invoice_date_due) < hi})

OpenAmount(B) == SumRecords(B, DOMAIN B, "amount_residual")

\* C18: the weeks of a forecast are the consecutive 7-day windows
\* [start + 7i, start + 7(i+1)) from the requested start date; the incoming
\* amount of a week is the sum of amount_residual of the open receivables
\* due in its window and the outgoing amount that of the open payables due
\* in it, an invoice due on the day a window ends being in the next week
\* only.
C18_WeeksAreHalfOpenWindows ==
  cashflow.status = "ok" =>
    /\ Len(cashflow.weeks) = cashflow.num_weeks
    /\ \A k \in DOMAIN cashflow.weeks :
         LET w == cashflow.weeks[k]
         IN /\ w.Start = cashflow.start_date + 7 * (k - 1)
            /\ w.Eind = w.Start + 7
            /\ k > 1 => w.Start = cashflow.weeks[k - 1].Eind
            /\ w.Inkomend = OpenAmount(OpenDueWithin("out_invoice", w.Start, w.Eind))
            /\ - w.Uitgaand = OpenAmount(OpenDueWithin("in_invoice", w.Start, w.Eind))

\* C18 witness: a forecast from day 8 with a receivable due on day 15, the
\* day week 1 ends and week 2 starts, and a payable due on day 8: the
\* receivable is in week 2 only, the payable in week 1
C18_Witness ==
  /\ cashflow.status = "ok"
  /\ cashflow.start_date = 8
  /\ invoices = SetToBag({Invoice("out_invoice", 1, DateString(15), 50000),
                          Invoice("in_invoice", 1, DateString(8), 20000)})
  /\ cashflow.weeks[1].Inkomend = 0
  /\ cashflow.weeks[1].Uitgaand = -20000
  /\ cashflow.weeks[2].Inkomend = 50000
  /\ cashflow.weeks[2].Uitgaand = 0

-----------------------------------------------------------------------------
(* Properties of the VAT analysis *)

\* The posted lines of the period and entity of the shown VAT tab that are
\* booked in the entity named company on an account of the given series
VatLinesOf(company, series) ==
  LET shown == PostedBetween(vat.company_id, vat.date_from, vat.date_to)
  IN RestrictBag(shown, {l \in DOMAIN shown :
                           /\ CompanyName(l.company_id) = company
                           /\ HasAccount(ChartOfAccounts, l.account_id)
                           /\ StartsWith(AccountOf(ChartOfAccounts, l.account_id).code,
                                         series)})

\* C12: per entity the VAT net position is input VAT (the debits on the
\* input VAT accounts, series 152) minus output VAT (the credits on the
\* output VAT accounts, series 150); a positive net is shown as 'Te vorderen' and a negative net as
\* 'Te betalen', each with the absolute amount.
C12_NetIsInputMinusOutput ==
  vat.status = "ok" =>
    \A c \in DOMAIN vat.entiteiten :
      LET e == vat.entiteiten[c]
          input == VatLinesOf(c, <<"1", "5", "2">>)
          output == VatLinesOf(c, <<"1", "5", "0">>)
      IN /\ e.voorbelasting = SumRecords(input, DOMAIN input, "debit")
         /\ e.af_te_dragen = SumRecords(output, DOMAIN output, "credit")
         /\ e.netto = e.voorbelasting - e.af_te_dragen
         /\ e.netto > 0 => e.metric = [label |-> "Te vorderen", bedrag |-> e.netto]
         /\ e.netto < 0 => e.metric = [label |-> "Te betalen", bedrag |-> - e.netto]

\* C12 witness: input VAT 900.00 and output VAT 1200.00 in entity 1 are
\* shown as 300.00 to pay
C12_Witness ==
  /\ vat.status = "ok"
  /\ ledger = SetToBag({Line(11, 1, 2, 90000, 0), Line(9, 1, 2, 0, 120000)})
  /\ vat.entiteiten["Pure & Original B.V."].netto = -30000
  /\ vat.entiteiten["Pure & Original B.V."].metric = [label |-> "Te betalen", bedrag |-> 30000]

\* The posted lines of the period and entity of the shown VAT tab booked in
\* the entity named company on one of the accounts
VatLinesOn(company, account_ids) ==
  LET shown == PostedBetween(vat.company_id, vat.date_from, vat.date_to)
  IN RestrictBag(shown, {l \in DOMAIN shown :
                           /\ CompanyName(l.company_id) = company
                           /\ l.account_id \in account_ids})

\* The Belgian VAT accounts of the chart: 152010, 'Belgische BTW' and
\* 'Correctie btw belgië'
BelgianAccountIds == {12, 13, 14}

\* The entities the Belgian VAT warning names
Flagged ==
  IF vat.belgische_btw.shown THEN DOMAIN vat.belgische_btw.per_entiteit ELSE {}

\* C19: the Belgian VAT warning names an entity exactly when one of its
\* Belgian VAT accounts has a nonzero balance (debit - credit) in the
\* period, with that balance as the amount: debits and credits that cancel
\* are not flagged, a credit-side balance is.
C19_FlagFollowsBalance ==
  vat.status = "ok" =>
    \A c \in DOMAIN vat.entiteiten :
      LET nonzero == \E a \in BelgianAccountIds : NetDebit(VatLinesOn(c, {a})) # 0
      IN /\ c \in Flagged <=> nonzero
         /\ c \in Flagged =>
              vat.belgische_btw.per_entiteit[c] = NetDebit(VatLinesOn(c, BelgianAccountIds))

Belgisch == <<"B", "e", "l", "g", "i", "s", "c", "h">>

Belgie == <<"B", "e", "l", "g", "i", "ë">>

Rekening152010 == <<"1", "5", "2", "0", "1", "0">>

\* C20: every line selected for the Belgian VAT warning is on account code
\* 152010 or on an account whose name contains 'Belgisch' or 'België'
\* (letter case set aside, as the search is case=False); a line on any
\* other account, 'Voorbelasting' for one, is never selected, and every
\* entity the warning names has a line on such an account in the period.
C20_SelectedByCodeOrName ==
  vat.status = "ok" =>
    /\ \A r \in vat.be_vat :
         /\ \/ r.account_code = Rekening152010
            \/ Contains(Lower(Spelling(r.account_name)), Lower(Belgisch))
            \/ Contains(Lower(Spelling(r.account_name)), Lower(Belgie))
         /\ r.account_name # "Voorbelasting"
    /\ \A c \in Flagged : VatLinesOn(c, BelgianAccountIds) # EmptyBag

\* C20 witness: input VAT booked on 'Voorbelasting' and on 'Correctie btw
\* belgië': only the second line is selected and the warning shows 100.00
C20_Witness ==
  /\ vat.status = "ok"
  /\ ledger = SetToBag({Line(11, 1, 2, 120000, 0), Line(14, 1, 2, 10000, 0)})
  /\ {r.account_name : r \in vat.be_vat} = {"Correctie btw belgië"}
  /\ vat.belgische_btw.shown
  /\ vat.belgische_btw.be_total = 10000

-----------------------------------------------------------------------------
(* Properties of failed fetches *)

\* The posted lines on cash accounts of the entity of the shown forecast
BankPosition ==
  RestrictBag(ledger, {l \in DOMAIN ledger :
                         /\ l.parent_state = "posted"
                         /\ cashflow.company_id = AlleEntiteiten
                              \/ l.company_id = cashflow.company_id
                         /\ HasAccount(ChartOfAccounts, l.account_id)
                         /\ AccountOf(ChartOfAccounts, l.account_id).account_type
                              = "asset_cash"})

\* C13: whichever fetches fail, a section whose fetch failed ends in an
\* explicit empty or error state and every other section shows what it
\* shows without the failure, the page always being rendered to its end: a
\* cashflow tab that shows a forecast shows the bank balance of the data
\* source.
C13_FailedFetchEndsInEmptyState ==
  cashflow.status = "ok" => cashflow.current_balance = NetDebit(BankPosition)

-----------------------------------------------------------------------------
(* Properties of the statement section of an account *)

\* C14: an account with a recognized Odoo account type (asset, liability,
\* equity, income, expense) stands in the balance sheet in the section its
\* type gives; the digits of the code decide only for an account without
\* such a type: every row of the balance sheet summary with an asset type
\* is in activa and every row with a liability or equity type in passiva.
C14_SectionFollowsAccountType ==
  aggregates.status = "ok" =>
    \A g \in aggregates.balance :
      LET category == get_account_type_category(g.account_type)
      IN /\ category = "activa" => g.nl_category = "activa"
         /\ category \in {"passiva", "eigen_vermogen"} => g.nl_category = "passiva"

-----------------------------------------------------------------------------
(* Properties of the requests *)

\* C15: the data source is never changed: every request sent to it, in
\* every section and every sequence of runs, is a search_read; no create,
\* write, unlink or posting call is sent.
C15_EveryRequestIsSearchRead ==
  \A i \in DOMAIN requests : requests[i].method = "search_read"

\* C15 witness: a run to its end in which the PDF of an invoice was opened:
\* fourteen requests, the one for the attachment among them
C15_Witness ==
  /\ position = "done"
  /\ Len(requests) = 14
  /\ \E i \in DOMAIN requests : requests[i].model = "ir.attachment"

\* The terms of a request's search domain that bound a date
DateTerms(request) ==
  {k \in DOMAIN request.domain : request.domain[k][1] \in {"date", "invoice_date"}}

\* C26: whenever a report section issues a date-filtered query, date_from
\* and date_to are actual dates: with an API key present and the company
\* list not loaded, no section is rendered with a null date bound and no
\* request carries one.
C26_DateBoundsAreDates ==
  \A i \in DOMAIN requests : \A k \in DateTerms(requests[i]) :
    requests[i].domain[k][3] # None

\* C28: while no API key is available no request is sent and no report
\* section is rendered (the run stays in the sidebar or ends there, its
\* request log empty), and a step that sends a request is taken with the
\* key present: requests start only after a key has been entered.
C28_NoKeyNoRequest ==
  /\ [](~api_key => requests = <<>> /\ position \in {"sidebar", "done"})
  /\ [][Len(requests') > Len(requests) => api_key /\ api_key']_vars

\* C28 witness: a run that ended without key: main returned after the
\* sidebar, nothing was sent
C28_Witness ==
  /\ ~api_key
  /\ position = "done"
  /\ requests = <<>>

-----------------------------------------------------------------------------
(* Credit notes in the cashflow forecast *)

\* The amount and the number of the open invoices of some move types due
\* from lo up to, not including, hi
DueAmount(move_type, lo, hi) == OpenAmount(OpenDueWithin(move_type, lo, hi))

DueCount(lo, hi) ==
  BagCardinality(OpenDueWithin("out_invoice", lo, hi))
  + BagCardinality(OpenDueWithin("in_invoice", lo, hi))
  + BagCardinality(OpenDueWithin("out_refund", lo, hi))
  + BagCardinality(OpenDueWithin("in_refund", lo, hi))

\* An expander shows the number of all open invoices due in [lo, hi) and
\* the amounts of the receivables and the payables among them
ExpanderCounts(expander, lo, hi) ==
  IF DueCount(lo, hi) = 0 THEN ~expander.shown
  ELSE /\ expander.shown
       /\ expander.count = DueCount(lo, hi)
       /\ expander.incoming = DueAmount("out_invoice", lo, hi)
       /\ expander.outgoing = DueAmount("in_invoice", lo, hi)

\* The day after the last due date of the data source
DueDatesEnd == (CHOOSE d \in DueDates : \A e \in DueDates : e <= d) + 1

\* C29: open credit notes (out_refund, in_refund) change no cashflow
\* amount: the incoming and outgoing amount of every week, the cumulative
\* balance and the incoming and outgoing totals of the overdue and the
\* beyond-horizon invoices are those of the open out_invoice and in_invoice
\* records alone, while the counts of the overdue and the beyond-horizon
\* invoices include the credit notes.
C29_CreditNotesChangeNoAmount ==
  cashflow.status = "ok" =>
    LET start == cashflow.start_date
        end == start + 7 * cashflow.num_weeks
    IN /\ \A k \in DOMAIN cashflow.weeks :
            LET w == cashflow.weeks[k]
            IN /\ w.Inkomend = DueAmount("out_invoice", w.Start, w.Eind)
               /\ - w.Uitgaand = DueAmount("in_invoice", w.Start, w.Eind)
               /\ w.Cumulatief = cashflow.current_balance
                                   + DueAmount("out_invoice", start, w.Eind)
                                   - DueAmount("in_invoice", start, w.Eind)
       /\ ExpanderCounts(cashflow.overdue, 0, start)
       /\ ExpanderCounts(cashflow.future, end, DueDatesEnd)

\* C29 witness: a forecast of 4 weeks from day 8 with a sales credit note
\* due on day 1 and a purchase credit note due on day 36 as the only open
\* invoices: each is counted in its expander, all amounts are 0
C29_Witness ==
  /\ cashflow.status = "ok"
  /\ cashflow.start_date = 8
  /\ cashflow.num_weeks = 4
  /\ invoices = SetToBag({Invoice("out_refund", 1, DateString(1), 20000),
                          Invoice("in_refund", 1, DateString(36), 20000)})
  /\ cashflow.overdue = [shown |-> TRUE, count |-> 1, incoming |-> 0, outgoing |-> 0]
  /\ cashflow.future = [shown |-> TRUE, count |-> 1, incoming |-> 0, outgoing |-> 0]
  /\ \A k \in 1..4 : /\ cashflow.weeks[k].Netto = 0
                      /\ cashflow.weeks[k].Cumulatief = cashflow.current_balance

-----------------------------------------------------------------------------
(* Properties of the cache *)

\* Call i is the fetch that stored what call j finds: the last call before
\* j with j's arguments that contacted the data source
StoredBy(i, j) ==
  /\ i < j
  /\ calls[i].kind = "call"
  /\ calls[i].key = calls[j].key
  /\ calls[i].contacted
  /\ \A m \in (i + 1)..(j - 1) :
       ~(calls[m].kind = "call" /\ calls[m].key = calls[j].key /\ calls[m].contacted)

RefreshBetween(i, j) == \E m \in (i + 1)..(j - 1) : calls[m].kind = "refresh"

\* C22 as stated: a stored result is returned unchanged to every later call
\* with the same arguments until 300 seconds have passed since it was
\* stored, and then fetched again; nothing but the expiry makes a call
\* fetch again.
C22_OnlyExpiryInvalidates ==
  \A j \in DOMAIN calls : \A i \in DOMAIN calls :
    (calls[j].kind = "call" /\ StoredBy(i, j)) =>
      /\ calls[j].contacted <=> calls[j].at >= calls[i].at + CacheTtl
      /\ ~calls[j].contacted => calls[j].result = calls[i].result

\* C22 amended: a stored result is returned unchanged to every later call
\* with the same arguments until 300 seconds have passed since it was
\* stored or the button "Ververs Data" has cleared the cache, and then
\* fetched again; nothing but the expiry and the button makes a call fetch
\* again.
C22_ExpiryOrRefreshInvalidates ==
  \A j \in DOMAIN calls : \A i \in DOMAIN calls :
    (calls[j].kind = "call" /\ StoredBy(i, j)) =>
      /\ calls[j].contacted <=>
           (calls[j].at >= calls[i].at + CacheTtl \/ RefreshBetween(i, j))
      /\ ~calls[j].contacted => calls[j].result = calls[i].result

\* C22 witness: a result fetched at 0 from the empty ledger is returned at
\* 150 although a line has been booked, and fetched again at 300
C22_Witness ==
  /\ Len(calls) = 3
  /\ \A k \in 1..3 : calls[k].kind = "call"
                      /\ calls[k].key = BalanceSheetDomain(AlleEntiteiten, 1, 3)
  /\ <<calls[1].at, calls[2].at, calls[3].at>> = <<0, 150, 300>>
  /\ <<calls[1].contacted, calls[2].contacted, calls[3].contacted>> = <<TRUE, FALSE, TRUE>>
  /\ calls[1].result = Fetched(<<>>)
  /\ calls[2].result = Fetched(<<>>)
  /\ calls[3].result = Fetched(<<Line(1, 1, 1, 100, 0)>>)

\* C27: a failed fetch is stored like a successful one: after a call whose
\* request to the data source failed, every call with the same arguments
\* in the following 300 seconds returns the no-data result without
\* contacting the data source, unless the button "Ververs Data" was
\* pressed in between.
C27_FailedFetchIsServedFromCache ==
  \A j \in DOMAIN calls : \A i \in DOMAIN calls :
    ( /\ calls[j].kind = "call"
      /\ StoredBy(i, j)
      /\ calls[i].result = FetchNone
      /\ calls[j].at < calls[i].at + CacheTtl
      /\ ~RefreshBetween(i, j) )
    => (~calls[j].contacted /\ calls[j].result = FetchNone)

\* C27 witness: the fetch at 0 fails; the call at 150 gets no data and
\* sends nothing although a line is booked; then the button is pressed
C27_Witness ==
  /\ Len(calls) = 3
  /\ ledger = SetToBag({Line(1, 1, 1, 100, 0)})
  /\ calls[1] = CallEvent(BalanceSheetDomain(1, 1, 3), 0, TRUE, FetchNone)
  /\ calls[2] = CallEvent(BalanceSheetDomain(1, 1, 3), 150, FALSE, FetchNone)
  /\ calls[3].kind = "refresh"

-----------------------------------------------------------------------------
(* Properties of the ratio metrics *)

\* C24: every ratio with a zero denominator is reported as 'N/A' instead
\* of a number: the gross margin when total income is 0, the paid
\* percentage when the invoice total is 0, and the margin of a product
\* whose list price is 0.
C24_ZeroDenominatorIsNotApplicable ==
  metrics.status = "totals" =>
    /\ (metrics.bruto_marge # Pending /\ metrics.total_income = 0)
         => metrics.bruto_marge = NotApplicable
    /\ (metrics.betaald_pct # Pending /\ metrics.amount_total = 0)
         => metrics.betaald_pct = NotApplicable
    /\ metrics.marge_analyse # Pending =>
         \A i \in DOMAIN metrics.products :
           metrics.products[i].list_price = 0 =>
             /\ metrics.marge_analyse.shown
             /\ \E r \in metrics.marge_analyse.low_margin :
                  r.name = metrics.products[i].name /\ r.margin_pct = NotApplicable

=============================================================================
